---- MODULE Spec2Model ----
(***************************************************************************)
(* Partizan 2022/23 box-score notebooks: the cleaning notebook, the data   *)
(* validation notebook, the consistency-analysis notebook and the          *)
(* predictive-modeling notebook, as one state machine.  Every notebook is  *)
(* a kernel of its own that runs its cells top to bottom; the notebooks    *)
(* meet only through partizan_2022_cleaned.csv.                            *)
(***************************************************************************)
EXTENDS Integers, Sequences, FiniteSets, TLC

VARIABLES
    raw,                \* partizan_2022_raw.csv, the rows as loaded
    csv,                \* partizan_2022_cleaned.csv on disk (NoFile before the export)
    vpc,                \* validation notebook: the last cell run
    df,                 \* validation notebook: df
    partizan_team,      \* validation notebook: partizan_team
    partizan_players,   \* validation notebook: partizan_players
    totals,             \* validation notebook: the season sums of rebounds, steals, turnovers
    diffs,              \* validation notebook: rebound_difference, turnover_difference
    all_metrics_match,  \* validation notebook: all_metrics_match of the per-game loop
    out,                \* validation notebook: the lines printed so far
    cpc,                \* consistency-analysis notebook: the last cell run
    c_df,               \* consistency-analysis notebook: df
    c_players,          \* consistency-analysis notebook: players
    c_active_players,   \* consistency-analysis notebook: active_players
    consistency_stats,  \* consistency-analysis notebook: consistency_stats
    consistency_stats_with_means,   \* consistency-analysis notebook
    autocorr_points,    \* consistency-analysis notebook: autocorr_points
    consistency_full,   \* consistency-analysis notebook: consistency_full
    ppc,                \* predictive-modeling notebook: the last cell run
    p_df,               \* predictive-modeling notebook: df
    p_active_players,   \* predictive-modeling notebook: active_players
    split,              \* predictive-modeling notebook: X_train, X_test, y_train, y_test
    lr_model,           \* predictive-modeling notebook: lr_model
    rf_model,           \* predictive-modeling notebook: rf_model
    p_out,              \* predictive-modeling notebook: the results printed so far
    entropy,            \* what an unseeded generator of each kernel would be seeded with
    rerun               \* a second kernel that runs the predictive-modeling notebook

vars == <<raw, csv, vpc, df, partizan_team, partizan_players, totals, diffs,
          all_metrics_match, out, cpc, c_df, c_players, c_active_players,
          consistency_stats, consistency_stats_with_means, autocorr_points,
          consistency_full, ppc, p_df, p_active_players, split, lr_model,
          rf_model, p_out, entropy, rerun>>

\* The tables of the consistency-analysis notebook.
ctables == <<consistency_stats, consistency_stats_with_means, autocorr_points,
             consistency_full>>

cvars == <<cpc, c_df, c_players, c_active_players, ctables>>

\* The models of the predictive-modeling notebook.
pmodels == <<split, lr_model, rf_model, p_out>>

pvars == <<ppc, p_df, p_active_players, pmodels, entropy, rerun>>

vvars == <<vpc, df, partizan_team, partizan_players, totals, diffs,
           all_metrics_match, out>>

-----------------------------------------------------------------------------
(* Bounds of the input data.                                               *)

NumGames == 3
NumPlayers == 2
MaxDelta == 2

-----------------------------------------------------------------------------
(* Values of the data files.                                               *)

TEAM == "PARTIZAN MOZZART BET BELGRADE"
NoFile == [exists |-> FALSE, rows |-> <<>>]
File(rows) == [exists |-> TRUE, rows |-> rows]
read_csv(file) == file.rows
None == "None"

RawNames == <<"PUNTER, KEVIN  XAVIER", "LEDAY, ZACH", "LESSORT, MATHIAS", "MADAR, YAM">>

\* The stat columns of the box score that hold counts.
StatCols == {"points", "two_points_made", "two_points_attempted",
             "three_points_made", "three_points_attempted", "free_throws_made",
             "free_throws_attempted", "offensive_rebounds", "defensive_rebounds",
             "total_rebounds", "assists", "steals", "turnovers", "blocks_favour",
             "blocks_against", "fouls_committed", "fouls_received", "valuation",
             "plus_minus"}

SignedCols == {"valuation", "plus_minus"}

MMSS(m, s) == [kind |-> "MM:SS", mm |-> m, ss |-> s]
DNP == [kind |-> "DNP", mm |-> 0, ss |-> 0]

\* Game g of the season: round g, the first game in the regular season and the
\* others in the playoffs, home and away alternating against one opponent.
GameCode(g) == IF g % 2 = 1 THEN "PAR-MAD" ELSE "MAD-PAR"
GamePhase(g) == IF g = 1 THEN "REGULAR SEASON" ELSE "PLAYOFFS"

\* The index rating of a row of the input, used to write valuation into the
\* generated box scores.
BoxPIR(r) ==
    (r.points + r.total_rebounds + r.assists + r.steals + r.blocks_favour
        + r.fouls_received)
    - ((r.two_points_attempted - r.two_points_made)
        + (r.three_points_attempted - r.three_points_made)
        + (r.free_throws_attempted - r.free_throws_made)
        + r.turnovers + r.blocks_against + r.fouls_committed)

WithPIR(r) == [r EXCEPT !.valuation = BoxPIR(r)]

\* The last player of the roster sits out the last game.
SitsOut(g, p) == g = NumGames /\ p = NumPlayers

PlayerRow(g, p) ==
    IF SitsOut(g, p) THEN
        [game_id |-> g, game |-> GameCode(g), round |-> g, phase |-> GamePhase(g),
         player |-> RawNames[p], is_starter |-> 0, is_playing |-> 0, minutes |-> DNP,
         points |-> 0, two_points_made |-> 0, two_points_attempted |-> 0,
         three_points_made |-> 0, three_points_attempted |-> 0,
         free_throws_made |-> 0, free_throws_attempted |-> 0,
         offensive_rebounds |-> 0, defensive_rebounds |-> 0, total_rebounds |-> 0,
         assists |-> 0, steals |-> 0, turnovers |-> 0, blocks_favour |-> 0,
         blocks_against |-> 0, fouls_committed |-> 0, fouls_received |-> 0,
         valuation |-> 0, plus_minus |-> 0]
    ELSE WithPIR(
        [game_id |-> g, game |-> GameCode(g), round |-> g, phase |-> GamePhase(g),
         player |-> RawNames[p], is_starter |-> p % 2, is_playing |-> 1,
         minutes |-> MMSS(10 + p, 30),
         points |-> 2 * p + 3 + g, two_points_made |-> p, two_points_attempted |-> p + 1,
         three_points_made |-> 1, three_points_attempted |-> 2,
         free_throws_made |-> g, free_throws_attempted |-> g + 1,
         offensive_rebounds |-> 1, defensive_rebounds |-> p, total_rebounds |-> p + 1,
         assists |-> g, steals |-> 1, turnovers |-> 2, blocks_favour |-> 1,
         blocks_against |-> 1, fouls_committed |-> 2, fouls_received |-> p,
         valuation |-> 0, plus_minus |-> p - g])

RECURSIVE SumOver(_, _, _)
\* Sum of f(g, p) over the players 1..n of game g.
SumOver(g, n, col) ==
    IF n = 0 THEN 0 ELSE PlayerRow(g, n)[col] + SumOver(g, n - 1, col)

RECURSIVE SecondsOver(_, _)
SecondsOver(g, n) ==
    IF n = 0 THEN 0
    ELSE PlayerRow(g, n).minutes.mm * 60 + PlayerRow(g, n).minutes.ss + SecondsOver(g, n - 1)

\* The team row of game g: the players' sums, plus the rebounds and turnovers of
\* the game that the scorers gave to no player.
TeamRebounds(g) == IF g = 1 THEN 1 ELSE 0
TeamTurnovers(g) == IF g = 2 THEN 1 ELSE 0

TeamRow(g) ==
    LET S(col) == SumOver(g, NumPlayers, col)
        secs == SecondsOver(g, NumPlayers)
    IN WithPIR(
        [game_id |-> g, game |-> GameCode(g), round |-> g, phase |-> GamePhase(g),
         player |-> TEAM, is_starter |-> 0, is_playing |-> 1,
         minutes |-> MMSS(secs \div 60, secs % 60),
         points |-> S("points"), two_points_made |-> S("two_points_made"),
         two_points_attempted |-> S("two_points_attempted"),
         three_points_made |-> S("three_points_made"),
         three_points_attempted |-> S("three_points_attempted"),
         free_throws_made |-> S("free_throws_made"),
         free_throws_attempted |-> S("free_throws_attempted"),
         offensive_rebounds |-> S("offensive_rebounds") + TeamRebounds(g),
         defensive_rebounds |-> S("defensive_rebounds"),
         total_rebounds |-> S("total_rebounds") + TeamRebounds(g),
         assists |-> S("assists"), steals |-> S("steals"),
         turnovers |-> S("turnovers") + TeamTurnovers(g),
         blocks_favour |-> S("blocks_favour"), blocks_against |-> S("blocks_against"),
         fouls_committed |-> S("fouls_committed"),
         fouls_received |-> S("fouls_received"),
         valuation |-> 0, plus_minus |-> S("plus_minus")])

\* The box score of the season: per game, the team row after the players' rows.
RowsPerGame == NumPlayers + 1
BoxScore ==
    [i \in 1..(NumGames * RowsPerGame) |->
        LET g == ((i - 1) \div RowsPerGame) + 1
            p == ((i - 1) % RowsPerGame) + 1
        IN IF p > NumPlayers THEN TeamRow(g) ELSE PlayerRow(g, p)]

-----------------------------------------------------------------------------
(* What the scorers can get wrong: one edit of the season's box score.     *)

Deltas == (-MaxDelta..MaxDelta) \ {0}

BumpRow(r, col, d) ==
    IF col = "minutes" THEN [r EXCEPT !.minutes.ss = @ + d]
    ELSE [r EXCEPT ![col] = @ + d]

BumpOk(r, col, d) ==
    IF col = "minutes" THEN r.minutes.kind = "MM:SS" /\ r.minutes.ss + d \in 0..59
    ELSE col \in SignedCols \/ r[col] + d >= 0

Relabel(r, g) ==
    [r EXCEPT !.game_id = g, !.game = GameCode(g), !.round = g, !.phase = GamePhase(g)]

Edits ==
    LET n == Len(BoxScore) IN
    {[kind |-> "none", i |-> 1, j |-> 1, col |-> "points", d |-> 1]}
    \cup {[kind |-> "bump", i |-> i, j |-> i, col |-> col, d |-> d] :
            i \in 1..n, col \in StatCols \cup {"minutes"}, d \in Deltas}
    \cup {[kind |-> "shift", i |-> i, j |-> j, col |-> col, d |-> d] :
            i \in 1..n, j \in 1..n, col \in StatCols \cup {"minutes"}, d \in Deltas}
    \cup {[kind |-> k, i |-> i, j |-> i, col |-> "points", d |-> 1] :
            k \in {"drop", "dup"}, i \in 1..n}
    \cup {[kind |-> "relabel", i |-> i, j |-> g, col |-> "points", d |-> 1] :
            i \in 1..n, g \in 1..NumGames}

\* A shift moves d of one column between two games' rows of one player (or of
\* the team): the season sum stays, the two games' values do not.
EditOk(e) ==
    LET b == BoxScore IN
    CASE e.kind = "bump" -> BumpOk(b[e.i], e.col, e.d)
      [] e.kind = "shift" -> /\ e.i < e.j
                             /\ b[e.i].player = b[e.j].player
                             /\ BumpOk(b[e.i], e.col, e.d)
                             /\ BumpOk(b[e.j], e.col, -e.d)
      [] e.kind = "relabel" -> b[e.i].game_id # e.j
      [] OTHER -> TRUE

ApplyEdit(e) ==
    LET b == BoxScore
        n == Len(b)
    IN CASE e.kind = "bump" -> [b EXCEPT ![e.i] = BumpRow(@, e.col, e.d)]
         [] e.kind = "shift" -> [b EXCEPT ![e.i] = BumpRow(@, e.col, e.d),
                                          ![e.j] = BumpRow(@, e.col, -e.d)]
         [] e.kind = "drop" -> SubSeq(b, 1, e.i - 1) \o SubSeq(b, e.i + 1, n)
         [] e.kind = "dup" -> Append(b, b[e.i])
         [] e.kind = "relabel" -> [b EXCEPT ![e.i] = Relabel(@, e.j)]
         [] OTHER -> b

RawFiles == {ApplyEdit(e) : e \in {x \in Edits : EditOk(x)}}

-----------------------------------------------------------------------------
(* A season long enough for the analysis notebooks, which keep a player    *)
(* from ten games on: SeasonGames games, the last PlayoffGames of them in  *)
(* the playoffs, played by the first NumSeasonPlayers players of RawNames. *)

SeasonGames == 12
PlayoffGames == 3
NumSeasonPlayers == 3
MaxAbsences == 3

RegularGames == SeasonGames - PlayoffGames

Opponents == <<"MAD", "BAS", "MIL", "VIR", "ZAL", "PAN", "OLY", "BAR", "ASV",
               "MUN", "IST", "TEL", "BER", "RED", "MCO", "VAL", "BAY", "ULK">>

HomeGame(opponent) == "PAR-" \o opponent
AwayGame(opponent) == opponent \o "-PAR"

\* What a season can look like.  schedule: the playoffs are played against new
\* opponents ("league", no game code twice) or as a series against the first
\* opponent of the regular season ("series", game codes repeat).  restart: the
\* rounds of the playoffs are numbered from 1 again.  absences[p]: the number
\* of regular-season games player p sat out, for the two players the notebook
\* trains models for (the others played every game).  scoreless: the second
\* player of the roster scored in no game.  dup: the file holds a second row
\* for the first player in the last game, after all others: the same row again
\* ("copy") or the row entered again with a free throw more ("revised").
Absentees == {p \in 1..NumSeasonPlayers : RawNames[p] \in {"PUNTER, KEVIN  XAVIER",
                                                          "LESSORT, MATHIAS"}}

Scenarios ==
    [schedule : {"league", "series"}, restart : BOOLEAN,
     absences : [Absentees -> 0..MaxAbsences],
     scoreless : BOOLEAN, dup : {"no", "copy", "revised"}]

IsPlayoffGame(g) == g > RegularGames

SeasonCode(sc, g) ==
    IF ~IsPlayoffGame(g) THEN
        IF g % 2 = 1 THEN HomeGame(Opponents[g]) ELSE AwayGame(Opponents[g])
    ELSE IF sc.schedule = "league" THEN
        IF g % 2 = 1 THEN HomeGame(Opponents[g]) ELSE AwayGame(Opponents[g])
    ELSE
        IF g - RegularGames <= 2 THEN AwayGame(Opponents[1]) ELSE HomeGame(Opponents[1])

SeasonRound(sc, g) == IF IsPlayoffGame(g) /\ sc.restart THEN g - RegularGames ELSE g

SeasonPhase(g) == IF IsPlayoffGame(g) THEN "PLAYOFFS" ELSE "REGULAR SEASON"

\* Player p sat out the regular-season games p + 1 .. p + absences[p].
Absent(sc, g, p) == p \in Absentees /\ g > p /\ g <= p + sc.absences[p]

EmptyRow ==
    [game_id |-> 0, game |-> "", round |-> 0, phase |-> "", player |-> "",
     is_starter |-> 0, is_playing |-> 0, minutes |-> DNP,
     points |-> 0, two_points_made |-> 0, two_points_attempted |-> 0,
     three_points_made |-> 0, three_points_attempted |-> 0,
     free_throws_made |-> 0, free_throws_attempted |-> 0,
     offensive_rebounds |-> 0, defensive_rebounds |-> 0, total_rebounds |-> 0,
     assists |-> 0, steals |-> 0, turnovers |-> 0, blocks_favour |-> 0,
     blocks_against |-> 0, fouls_committed |-> 0, fouls_received |-> 0,
     valuation |-> 0, plus_minus |-> 0]

SeasonGameRow(sc, g) ==
    [EmptyRow EXCEPT !.game_id = g, !.game = SeasonCode(sc, g),
                     !.round = SeasonRound(sc, g), !.phase = SeasonPhase(g)]

SeasonPlayerRow(sc, g, p) ==
    LET scores == ~(sc.scoreless /\ p = 2)
        twos == IF scores THEN (g + p) % 4 ELSE 0
        threes == IF scores THEN (g * p) % 3 ELSE 0
        frees == IF scores THEN (g + 1) % 2 ELSE 0
        r == [SeasonGameRow(sc, g) EXCEPT !.player = RawNames[p]]
    IN IF Absent(sc, g, p) THEN r
       ELSE WithPIR(
           [r EXCEPT !.is_starter = (g + p) % 2, !.is_playing = 1,
                     !.minutes = MMSS(10 + ((g + (2 * p)) % 15), (7 * g) % 60),
                     !.points = (2 * twos) + (3 * threes) + frees,
                     !.two_points_made = twos, !.two_points_attempted = twos + 2,
                     !.three_points_made = threes, !.three_points_attempted = threes + 1,
                     !.free_throws_made = frees, !.free_throws_attempted = frees + 1,
                     !.offensive_rebounds = g % 2, !.defensive_rebounds = p,
                     !.total_rebounds = (g % 2) + p,
                     !.assists = (g + p) % 3, !.steals = 1, !.turnovers = g % 3,
                     !.blocks_favour = p % 2, !.blocks_against = 1,
                     !.fouls_committed = 2, !.fouls_received = p,
                     !.plus_minus = ((3 * g + p) % 9) - 4])

SeasonPlayerRows(sc, g) == [p \in 1..NumSeasonPlayers |-> SeasonPlayerRow(sc, g, p)]

RECURSIVE SecondsOf(_)
SecondsOf(rows) ==
    IF rows = <<>> THEN 0
    ELSE (rows[1].minutes.mm * 60) + rows[1].minutes.ss + SecondsOf(Tail(rows))

RECURSIVE RowSum(_, _)
RowSum(rows, col) == IF rows = <<>> THEN 0 ELSE rows[1][col] + RowSum(Tail(rows), col)

\* The team row of game g: the sums of the players' rows.
SeasonTeamRow(sc, g) ==
    LET rows == SeasonPlayerRows(sc, g)
        secs == SecondsOf(rows)
        r == SeasonGameRow(sc, g)
    IN WithPIR(
        [c \in DOMAIN r |->
            CASE c \in StatCols -> RowSum(rows, c)
              [] c = "player" -> TEAM
              [] c = "is_playing" -> 1
              [] c = "minutes" -> MMSS(secs \div 60, secs % 60)
              [] OTHER -> r[c]])

\* The file lists the games latest first, the team's row after the players'.
Season(sc) ==
    LET rows == SeasonGames * (NumSeasonPlayers + 1)
        file == [i \in 1..rows |->
                    LET g == SeasonGames - ((i - 1) \div (NumSeasonPlayers + 1))
                        p == ((i - 1) % (NumSeasonPlayers + 1)) + 1
                    IN IF p > NumSeasonPlayers THEN SeasonTeamRow(sc, g)
                       ELSE SeasonPlayerRow(sc, g, p)]
        row == SeasonPlayerRow(sc, SeasonGames, 1)
        again == WithPIR([row EXCEPT !.points = @ + 1, !.free_throws_made = @ + 1,
                                     !.free_throws_attempted = @ + 1])
    IN CASE sc.dup = "no" -> file
         [] sc.dup = "copy" -> Append(file, row)
         [] sc.dup = "revised" -> Append(file, again)

SeasonFiles == {Season(sc) : sc \in Scenarios}

-----------------------------------------------------------------------------
(* The cleaning notebook.                                                  *)

\* minutes: '' and 'DNP' become missing, and missing becomes '00:00'.
fill_minutes(m) == IF m.kind \in {"", "DNP", "NaN"} THEN MMSS(0, 0) ELSE m

mm_ss_to_seconds(m) == IF m.kind = "MM:SS" THEN (m.mm * 60) + m.ss ELSE None

\* df['player'].replace({...}): the sixteen players' names; the team's stays.
replace_player(name) ==
    CASE name = "PUNTER, KEVIN  XAVIER" -> "Punter Kevin"
      [] name = "LEDAY, ZACH" -> "Leday Zach"
      [] name = "LESSORT, MATHIAS" -> "Lessort Mathias"
      [] name = "MADAR, YAM" -> "Madar Yam"
      [] OTHER -> name

\* One row through the cleaning cells: minutes filled, total_seconds added, the
\* name rewritten, the two flags cast to bool, and game_id dropped with the
\* other identifier columns.
clean_row(r) ==
    [game |-> r.game, round |-> r.round, phase |-> r.phase,
     is_starter |-> (r.is_starter # 0), is_playing |-> (r.is_playing # 0),
     player |-> replace_player(r.player), minutes |-> fill_minutes(r.minutes),
     points |-> r.points, two_points_made |-> r.two_points_made,
     two_points_attempted |-> r.two_points_attempted,
     three_points_made |-> r.three_points_made,
     three_points_attempted |-> r.three_points_attempted,
     free_throws_made |-> r.free_throws_made,
     free_throws_attempted |-> r.free_throws_attempted,
     offensive_rebounds |-> r.offensive_rebounds,
     defensive_rebounds |-> r.defensive_rebounds,
     total_rebounds |-> r.total_rebounds, assists |-> r.assists,
     steals |-> r.steals, turnovers |-> r.turnovers,
     blocks_favour |-> r.blocks_favour, blocks_against |-> r.blocks_against,
     fouls_committed |-> r.fouls_committed, fouls_received |-> r.fouls_received,
     valuation |-> r.valuation, plus_minus |-> r.plus_minus,
     total_seconds |-> mm_ss_to_seconds(fill_minutes(r.minutes))]

cleaning_data(rows) == [i \in 1..Len(rows) |-> clean_row(rows[i])]

-----------------------------------------------------------------------------
(* Data frames.                                                            *)

IsTeam(r) == r.player = TEAM
IsPlayer(r) == r.player # TEAM

RECURSIVE ColSum(_, _)
\* frame[col].sum()
ColSum(frame, col) ==
    IF frame = <<>> THEN 0 ELSE frame[1][col] + ColSum(Tail(frame), col)

RECURSIVE unique(_)
\* frame['game'].unique(): the game codes in the order of their first row
unique(codes) ==
    IF codes = <<>> THEN <<>>
    ELSE LET rest == unique(SubSeq(codes, 1, Len(codes) - 1))
             c == codes[Len(codes)]
         IN IF \E k \in 1..Len(rest) : rest[k] = c THEN rest ELSE Append(rest, c)

game_column(frame) == [i \in 1..Len(frame) |-> frame[i].game]

\* A printed line: its text, the stat columns the text names, and what the
\* f-string or the printed frame puts in it (a game code, numbers, rows).
Line(text, names, game, vals, rows) ==
    [text |-> text, names |-> names, game |-> game, vals |-> vals, rows |-> rows]
Say(text, names) == Line(text, names, "-", <<>>, <<>>)

-----------------------------------------------------------------------------
(* The data validation notebook, cell by cell.                             *)

VCells == <<"start", "load", "partition", "check_metrics", "check_and_explain",
            "rebound_split", "unassigned", "field_goals", "per_game", "valuation">>

VRank(c) == CHOOSE k \in 1..Len(VCells) : VCells[k] = c

\* The cell c has run.
VRan(c) == VRank(vpc) >= VRank(c)

VStep(from, to) == vpc = from /\ vpc' = to

\* df = pd.read_csv(file_path)
V_Load ==
    /\ csv.exists
    /\ VStep("start", "load")
    /\ df' = read_csv(csv)
    /\ UNCHANGED <<raw, csv, partizan_team, partizan_players, totals, diffs,
                   all_metrics_match, out, cvars, pvars>>

team_rows(frame) == SelectSeq(frame, IsTeam)
player_rows(frame) == SelectSeq(frame, IsPlayer)

V_Partition ==
    /\ VStep("load", "partition")
    /\ partizan_team' = team_rows(df)
    /\ partizan_players' = player_rows(df)
    /\ UNCHANGED <<raw, csv, df, totals, diffs, all_metrics_match, out, cvars, pvars>>

\* The seven metrics whose season sums check_metrics compares.
MatchCols == <<"total_seconds", "points", "assists", "free_throws_made",
               "free_throws_attempted", "fouls_committed", "fouls_received">>

check_metrics(players, team) ==
    IF \A k \in 1..Len(MatchCols) : ColSum(players, MatchCols[k]) = ColSum(team, MatchCols[k])
    THEN <<Say("All metrics that should match perfectly are matching perfectly", {})>>
    ELSE <<Say("All metrics that should match perfectly are not matching perfectly", {})>>

V_CheckMetrics ==
    /\ VStep("partition", "check_metrics")
    /\ partizan_team' = team_rows(df)
    /\ partizan_players' = player_rows(df)
    /\ out' = out \o check_metrics(partizan_players', partizan_team')
    /\ UNCHANGED <<raw, csv, df, totals, diffs, all_metrics_match, cvars, pvars>>

season_totals(players, team) ==
    [players_total_rebounds |-> ColSum(players, "total_rebounds"),
     team_total_rebounds |-> ColSum(team, "total_rebounds"),
     players_total_steals |-> ColSum(players, "steals"),
     team_total_steals |-> ColSum(team, "steals"),
     players_total_turnovers |-> ColSum(players, "turnovers"),
     team_total_turnovers |-> ColSum(team, "turnovers")]

check_and_explain_metrics(t) ==
    (IF /\ t.players_total_rebounds = t.team_total_rebounds
        /\ t.players_total_steals = t.team_total_steals
        /\ t.players_total_turnovers = t.team_total_turnovers
     THEN <<Say("All metrics are matching perfectly", {})>> ELSE <<>>)
    \o (IF t.players_total_rebounds # t.team_total_rebounds
        THEN <<Say("Total rebounds are not matching perfectly", {"total_rebounds"})>> ELSE <<>>)
    \o (IF t.players_total_steals # t.team_total_steals
        THEN <<Say("Total steals are not matching perfectly", {"steals"})>> ELSE <<>>)
    \o (IF t.players_total_turnovers # t.team_total_turnovers
        THEN <<Say("Total turnovers are not matching perfectly", {"turnovers"})>> ELSE <<>>)

V_CheckAndExplain ==
    /\ VStep("check_metrics", "check_and_explain")
    /\ totals' = season_totals(partizan_players, partizan_team)
    /\ out' = out \o check_and_explain_metrics(totals')
    /\ UNCHANGED <<raw, csv, df, partizan_team, partizan_players, diffs,
                   all_metrics_match, cvars, pvars>>

\* df['calculated_total_rebounds'] = df['offensive_rebounds'] + df['defensive_rebounds']
add_calculated_total_rebounds(frame) ==
    [i \in 1..Len(frame) |->
        frame[i] @@ [calculated_total_rebounds |->
                        frame[i].offensive_rebounds + frame[i].defensive_rebounds]]

keep_column(frame, col) == frame

drop_column(frame, col) ==
    [i \in 1..Len(frame) |-> [c \in (DOMAIN frame[i]) \ {col} |-> frame[i][c]]]

RebOff(r) == r.total_rebounds # r.calculated_total_rebounds

\* The check with the team rows left out.
inconsistent_rebounds_players_only(frame) == SelectSeq(player_rows(frame), RebOff)

inconsistent_rebounds(frame) == SelectSeq(frame, RebOff)

V_ReboundSplit ==
    /\ VStep("check_and_explain", "rebound_split")
    /\ LET widened == add_calculated_total_rebounds(df)
       IN /\ out' = Append(out,
                IF inconsistent_rebounds(widened) # <<>>
                THEN Say("Rebound totals inconsistent with offensive/defensive splits!", {})
                ELSE Say("Rebound totals consistent with offensive/defensive splits.", {}))
          /\ df' = drop_column(widened, "calculated_total_rebounds")
    /\ UNCHANGED <<raw, csv, partizan_team, partizan_players, totals, diffs,
                   all_metrics_match, cvars, pvars>>

rebound_difference(t) == t.team_total_rebounds - t.players_total_rebounds
turnover_difference(t) == t.team_total_turnovers - t.players_total_turnovers

V_Unassigned ==
    /\ VStep("rebound_split", "unassigned")
    /\ diffs' = [rebound_difference |-> rebound_difference(totals),
                 turnover_difference |-> turnover_difference(totals)]
    /\ out' = out \o <<Line("Unassigned team rebounds:", {"total_rebounds"}, "-",
                            <<diffs'.rebound_difference>>, <<>>),
                       Line("Unassigned team turnovers:", {"turnovers"}, "-",
                            <<diffs'.turnover_difference>>, <<>>)>>
    /\ UNCHANGED <<raw, csv, df, partizan_team, partizan_players, totals,
                   all_metrics_match, cvars, pvars>>

FgOff(r) == r.two_points_made * 2 + r.three_points_made * 3 # r.points - r.free_throws_made

\* player_errors[['player', 'points', 'two_points_made', 'three_points_made', 'free_throws_made']]
fg_columns(frame) ==
    [i \in 1..Len(frame) |->
        [player |-> frame[i].player, points |-> frame[i].points,
         two_points_made |-> frame[i].two_points_made,
         three_points_made |-> frame[i].three_points_made,
         free_throws_made |-> frame[i].free_throws_made]]

validate_field_goals_of_team_rows(players, team) ==
    LET player_errors == SelectSeq(players, FgOff)
        team_field_goal_points == (ColSum(team, "two_points_made") * 2)
                                    + (ColSum(team, "three_points_made") * 3)
        team_points_minus_ft == ColSum(team, "points") - ColSum(team, "free_throws_made")
        team_discrepancy == team_field_goal_points - team_points_minus_ft
    IN IF player_errors = <<>> /\ team_discrepancy = 0
       THEN <<Say("Field goals are accurate for all players and team totals.", {})>>
       ELSE (IF player_errors # <<>>
             THEN <<Line("Player field goal discrepancies found:", {}, "-", <<>>,
                         fg_columns(player_errors))>>
             ELSE <<>>)
            \o (IF team_discrepancy # 0
                THEN <<Line("Team field goals mismatch:", {}, "-",
                            <<team_field_goal_points, team_points_minus_ft, team_discrepancy>>,
                            <<>>)>>
                ELSE <<>>)

validate_field_goals(players, team) ==
    LET player_errors == SelectSeq(players, FgOff)
        team_field_goal_points == (ColSum(players, "two_points_made") * 2)
                                    + (ColSum(players, "three_points_made") * 3)
        team_points_minus_ft == ColSum(team, "points") - ColSum(players, "free_throws_made")
        team_discrepancy == team_field_goal_points - team_points_minus_ft
    IN IF player_errors = <<>> /\ team_discrepancy = 0
       THEN <<Say("Field goals are accurate for all players and team totals.", {})>>
       ELSE (IF player_errors # <<>>
             THEN <<Line("Player field goal discrepancies found:", {}, "-", <<>>,
                         fg_columns(player_errors))>>
             ELSE <<>>)
            \o (IF team_discrepancy # 0
                THEN <<Line("Team field goals mismatch:", {}, "-",
                            <<team_field_goal_points, team_points_minus_ft, team_discrepancy>>,
                            <<>>)>>
                ELSE <<>>)

V_FieldGoals ==
    /\ VStep("unassigned", "field_goals")
    /\ out' = out \o validate_field_goals(partizan_players, partizan_team)
    /\ UNCHANGED <<raw, csv, df, partizan_team, partizan_players, totals, diffs,
                   all_metrics_match, cvars, pvars>>

\* One pass of the per-game loop: the lines it prints for `game`.
game_mismatches(frame, game) ==
    LET InGame(r) == r.game = game
        game_data == SelectSeq(frame, InGame)
        team_row == team_rows(game_data)
        players_in_game == player_rows(game_data)
        Check(col, text) ==
            IF ColSum(team_row, col) # ColSum(players_in_game, col)
            THEN <<Line(text, {col}, game, <<>>, <<>>)>> ELSE <<>>
    IN Check("points", "Points mismatch in game")
       \o Check("assists", "Assists mismatch in game")
       \o Check("total_seconds", "Seconds mismatch in game")

RECURSIVE per_game_lines(_, _)
per_game_lines(frame, games) ==
    IF games = <<>> THEN <<>>
    ELSE game_mismatches(frame, Head(games)) \o per_game_lines(frame, Tail(games))

V_PerGame ==
    /\ VStep("field_goals", "per_game")
    /\ LET games == unique(game_column(df))
           printed == per_game_lines(df, games)
       IN /\ all_metrics_match' = (printed = <<>>)
          /\ out' = out \o printed
                \o (IF all_metrics_match'
                    THEN <<Say("Team totals match players sums for all metrics in all games.", {})>>
                    ELSE <<>>)
    /\ UNCHANGED <<raw, csv, df, partizan_team, partizan_players, totals, diffs,
                   cvars, pvars>>

\* frame.loc[:, 'missed_field_goals'] = ...; frame.loc[:, 'missed_free_throws'] = ...
add_missed_shots(frame) ==
    [i \in 1..Len(frame) |->
        frame[i] @@ [missed_field_goals |->
                        (frame[i].two_points_attempted - frame[i].two_points_made)
                        + (frame[i].three_points_attempted - frame[i].three_points_made),
                     missed_free_throws |->
                        frame[i].free_throws_attempted - frame[i].free_throws_made]]

expected_valuation(r) ==
    r.points + r.total_rebounds + r.assists + r.steals + r.blocks_favour + r.fouls_received
    - (r.missed_field_goals + r.missed_free_throws + r.turnovers + r.blocks_against
        + r.fouls_committed)

\* (frame['valuation'] == expected).all()
valuation_ok(frame) == \A i \in 1..Len(frame) : frame[i].valuation = expected_valuation(frame[i])

validate_valuation(players, team) ==
    <<IF valuation_ok(players) THEN Say("Valuation is accurate for all players.", {"valuation"})
      ELSE Say("Player valuation mismatch detected!", {"valuation"}),
      IF valuation_ok(team) THEN Say("Valuation is accurate for the team.", {"valuation"})
      ELSE Say("Team valuation mismatch detected!", {"valuation"})>>

V_Valuation ==
    /\ VStep("per_game", "valuation")
    /\ partizan_players' = add_missed_shots(partizan_players)
    /\ partizan_team' = add_missed_shots(partizan_team)
    /\ out' = out \o validate_valuation(partizan_players', partizan_team')
    /\ UNCHANGED <<raw, csv, df, totals, diffs, all_metrics_match, cvars, pvars>>

-----------------------------------------------------------------------------
(* The cleaning notebook, from read_csv to the export.                     *)

CleaningNotebook ==
    /\ csv = NoFile
    /\ csv' = File(cleaning_data(raw))
    /\ UNCHANGED <<raw, vvars, cvars, pvars>>

-----------------------------------------------------------------------------
(* The consistency-analysis notebook: load and filter.                     *)

Playing_or_not(r) == TRUE

Playing(r) == r.is_playing = TRUE

C_Load ==
    /\ csv.exists
    /\ cpc = "start" /\ cpc' = "load"
    /\ c_df' = read_csv(csv)
    /\ UNCHANGED <<raw, csv, vvars, c_players, c_active_players, ctables, pvars>>

C_Split ==
    /\ cpc = "load" /\ cpc' = "split"
    /\ c_players' = player_rows(c_df)
    /\ UNCHANGED <<raw, csv, vvars, c_df, c_active_players, ctables, pvars>>

C_Active ==
    /\ cpc = "split" /\ cpc' = "active"
    /\ c_active_players' = SelectSeq(c_players, Playing)
    /\ UNCHANGED <<raw, csv, vvars, c_df, c_players, ctables, pvars>>

-----------------------------------------------------------------------------
(* The predictive-modeling notebook: load and filter.                      *)

\* min_games = 10 of the consistency analysis; the filter below writes the 10 out.
min_games == 10

\* active_players.groupby('player')['game'].nunique(), for one player
player_games(frame, name) ==
    Cardinality({frame[i].game : i \in {k \in 1..Len(frame) : frame[k].player = name}})

filter_players_with_min_games(frame) ==
    LET Kept(r) == player_games(player_rows(frame), r.player) >= min_games
    IN SelectSeq(player_rows(frame), Kept)

filter_active_players(frame) ==
    LET active == SelectSeq(player_rows(frame), Playing)
        Kept(r) == player_games(active, r.player) >= min_games
    IN SelectSeq(active, Kept)

P_Load ==
    /\ csv.exists
    /\ ppc = "start" /\ ppc' = "load"
    /\ p_df' = read_csv(csv)
    /\ UNCHANGED <<raw, csv, vvars, cvars, p_active_players, pmodels, entropy, rerun>>

P_Filter_in_place ==
    /\ ppc = "load" /\ ppc' = "filter"
    /\ p_active_players' = filter_active_players(p_df)
    /\ p_df' = p_active_players'
    /\ UNCHANGED <<raw, csv, vvars, cvars, pmodels, entropy, rerun>>

P_Filter ==
    /\ ppc = "load" /\ ppc' = "filter"
    /\ p_active_players' = filter_active_players(p_df)
    /\ UNCHANGED <<raw, csv, vvars, cvars, p_df, pmodels, entropy, rerun>>

-----------------------------------------------------------------------------
(* Numbers that pandas holds as floats.  A mean is a ratio, a standard     *)
(* deviation the root of one, a correlation a ratio over a root; NaN is    *)
(* what pandas writes where there is no value.                             *)

NaN == [form |-> "nan", num |-> 0, den |-> 1]
Float(v) == [form |-> "ratio", num |-> v, den |-> 1]
Ratio(a, b) == [form |-> "ratio", num |-> a, den |-> b]
\* sqrt(a / b)
Root(a, b) == [form |-> "root", num |-> a, den |-> b]
\* a / sqrt(b)
OverRoot(a, b) == [form |-> "over_root", num |-> a, den |-> b]
isna(x) == x.form = "nan"

-----------------------------------------------------------------------------
(* The predictive-modeling notebook: the features.                         *)

\* The order of the players' names as strings.
SortedNames == <<"Leday Zach", "Lessort Mathias", "Madar Yam", "Punter Kevin">>
NameRank(name) == CHOOSE k \in 1..Len(SortedNames) : SortedNames[k] = name

\* active_players['phase'].map({'REGULAR SEASON': 0, 'PLAYOFFS': 1})
phase_order == [phase \in {"REGULAR SEASON", "PLAYOFFS"} |->
                    IF phase = "REGULAR SEASON" THEN 0 ELSE 1]

add_phase_order(frame, order) ==
    [i \in 1..Len(frame) |-> frame[i] @@ [phase_order |-> order[frame[i].phase]]]

\* Row a sorts before row b under ['player', 'phase_order', 'round'].
Precedes(a, b) ==
    \/ NameRank(a.player) < NameRank(b.player)
    \/ a.player = b.player /\ a.phase_order < b.phase_order
    \/ a.player = b.player /\ a.phase_order = b.phase_order /\ a.round < b.round

RECURSIVE sort_values(_)
\* frame.sort_values(['player', 'phase_order', 'round']): with several keys
\* pandas sorts stably, so rows with equal keys keep the order of the frame.
sort_values(frame) ==
    IF frame = <<>> THEN <<>>
    ELSE LET rest == sort_values(SubSeq(frame, 1, Len(frame) - 1))
             r == frame[Len(frame)]
             k == Cardinality({i \in 1..Len(rest) : ~Precedes(r, rest[i])})
         IN SubSeq(rest, 1, k) \o <<r>> \o SubSeq(rest, k + 1, Len(rest))

shift_points_ungrouped(frame, i) ==
    IF i = 1 THEN NaN ELSE Float(frame[i - 1].points)

\* frame.groupby('player')['points'].shift(1), at row i: the points of the
\* player's row before it in the frame.
shift_points(frame, i) ==
    LET before == {k \in 1..(i - 1) : frame[k].player = frame[i].player}
    IN IF before = {} THEN NaN
       ELSE Float(frame[CHOOSE k \in before : \A j \in before : j <= k].points)

add_points_of_row_before(frame) ==
    [i \in 1..Len(frame) |->
        frame[i] @@ [points_previous_game |->
                        IF i = 1 THEN NaN ELSE Float(frame[i - 1].points)]]

add_points_previous_game(frame) ==
    [i \in 1..Len(frame) |->
        frame[i] @@ [points_previous_game |-> shift_points(frame, i)]]

HasPrevious(r) == ~isna(r.points_previous_game)

\* frame.dropna(subset=['points_previous_game'])
dropna(frame) == SelectSeq(frame, HasPrevious)

is_playoff(r) == IF r.phase = "PLAYOFFS" THEN 1 ELSE 0

is_home_by_last_token(r) ==
    IF Len(r.game) >= 3 /\ SubSeq(r.game, Len(r.game) - 2, Len(r.game)) = "PAR"
    THEN 1 ELSE 0

\* 1 if x.startswith('PAR') else 0
is_home(r) == IF Len(r.game) >= 3 /\ SubSeq(r.game, 1, 3) = "PAR" THEN 1 ELSE 0

add_game_context(frame) ==
    [i \in 1..Len(frame) |->
        frame[i] @@ [is_playoff |-> is_playoff(frame[i]), is_home |-> is_home(frame[i])]]

\* The cell "prepare data".
prepare_data(frame) ==
    drop_column(
        add_game_context(
            dropna(add_points_previous_game(
                sort_values(add_phase_order(frame, phase_order))))),
        "phase_order")

P_Prepare ==
    /\ ppc = "filter" /\ ppc' = "prepare"
    /\ p_active_players' = prepare_data(p_active_players)
    /\ UNCHANGED <<raw, csv, vvars, cvars, p_df, pmodels, entropy, rerun>>

-----------------------------------------------------------------------------
(* The predictive-modeling notebook: the models.  A fitted model and its   *)
(* scores are what the estimator, its seed and the samples it was given    *)
(* determine; they are kept as that.                                       *)

random_state == 42

\* sklearn's check_random_state: a seed that is given seeds the generator;
\* e is what the kernel would seed it with otherwise.
check_random_state_unseeded(seed, e) == e

check_random_state(seed, e) == seed

\* test_size=0.2
test_size == [num |-> 1, den |-> 5]

\* RandomState(seed).permutation(n) of numpy's Mersenne Twister, n = 1, 2, ...
Permutation42 ==
    <<
    <<0>>,
    <<1, 0>>,
    <<0, 1, 2>>,
    <<1, 3, 0, 2>>,
    <<1, 4, 2, 0, 3>>,
    <<0, 1, 5, 2, 4, 3>>,
    <<0, 1, 5, 2, 4, 3, 6>>,
    <<1, 5, 0, 7, 2, 4, 3, 6>>,
    <<7, 1, 5, 0, 8, 2, 4, 3, 6>>,
    <<8, 1, 5, 0, 7, 2, 9, 4, 3, 6>>,
    <<5, 0, 9, 10, 2, 1, 8, 4, 7, 3, 6>>,
    <<10, 9, 0, 8, 5, 2, 1, 11, 4, 7, 3, 6>>,
    <<11, 9, 0, 8, 5, 2, 1, 12, 4, 7, 10, 3, 6>>,
    <<9, 11, 0, 12, 5, 8, 2, 1, 13, 4, 7, 10, 3, 6>>,
    <<9, 11, 0, 13, 5, 8, 2, 1, 14, 4, 7, 10, 12, 3, 6>>,
    <<0, 1, 5, 14, 13, 11, 8, 9, 2, 15, 4, 7, 10, 12, 3, 6>>,
    <<0, 1, 5, 15, 11, 14, 8, 13, 2, 9, 16, 4, 7, 10, 12, 3, 6>>,
    <<0, 1, 8, 5, 3, 13, 16, 15, 11, 2, 9, 17, 4, 12, 7, 10, 14, 6>>,
    <<0, 5, 11, 1, 8, 16, 3, 13, 15, 17, 2, 9, 18, 4, 12, 7, 10, 14, 6>>,
    <<0, 17, 15, 1, 8, 5, 11, 3, 18, 16, 13, 2, 9, 19, 4, 12, 7, 10, 14,
      6>>,
    <<0, 17, 15, 1, 8, 5, 11, 3, 18, 16, 13, 2, 9, 20, 4, 12, 7, 10, 14,
      19, 6>>,
    <<0, 13, 8, 1, 15, 5, 20, 11, 3, 4, 17, 12, 18, 16, 2, 9, 21, 7, 10,
      14, 19, 6>>,
    <<15, 9, 0, 8, 17, 12, 1, 13, 5, 2, 11, 20, 3, 4, 18, 16, 21, 22, 7,
      10, 14, 19, 6>>,
    <<8, 16, 0, 18, 11, 9, 13, 1, 21, 5, 2, 12, 15, 3, 4, 22, 17, 20, 23,
      7, 10, 14, 19, 6>>,
    <<8, 16, 0, 23, 11, 9, 13, 1, 22, 5, 2, 12, 15, 3, 4, 20, 17, 21, 18,
      24, 7, 10, 14, 19, 6>>,
    <<8, 16, 0, 24, 11, 9, 13, 1, 23, 5, 2, 12, 15, 3, 4, 21, 17, 22, 18,
      25, 20, 7, 10, 14, 19, 6>>,
    <<8, 13, 9, 21, 0, 11, 16, 17, 12, 24, 1, 4, 5, 2, 15, 22, 3, 25, 23,
      18, 26, 20, 7, 10, 14, 19, 6>>,
    <<9, 25, 8, 21, 0, 12, 17, 22, 11, 13, 15, 1, 4, 5, 2, 16, 23, 3, 26,
      24, 18, 27, 20, 7, 10, 14, 19, 6>>,
    <<27, 16, 12, 22, 8, 9, 21, 0, 26, 13, 15, 11, 17, 1, 4, 5, 2, 24, 3,
      23, 25, 18, 28, 20, 7, 10, 14, 19, 6>>,
    <<27, 15, 23, 17, 8, 9, 28, 24, 12, 0, 4, 16, 5, 13, 11, 22, 1, 2, 25,
      3, 21, 26, 18, 29, 20, 7, 10, 14, 19, 6>>,
    <<27, 15, 23, 17, 8, 9, 29, 24, 12, 0, 4, 16, 5, 13, 11, 22, 1, 2, 25,
      3, 21, 26, 18, 30, 20, 7, 10, 14, 28, 19, 6>>,
    <<29, 15, 24, 17, 8, 9, 30, 25, 12, 0, 4, 16, 5, 13, 11, 23, 1, 2, 26,
      3, 21, 27, 22, 18, 31, 20, 7, 10, 14, 28, 19, 6>>,
    <<31, 15, 26, 17, 8, 9, 19, 21, 12, 0, 4, 16, 5, 13, 11, 24, 1, 2, 29,
      3, 27, 23, 30, 22, 18, 25, 6, 20, 32, 7, 10, 14, 28>>,
    <<15, 19, 27, 26, 8, 24, 21, 12, 32, 9, 0, 4, 16, 17, 5, 13, 11, 1, 2,
      30, 3, 29, 23, 31, 22, 18, 25, 6, 20, 33, 7, 10, 14, 28>>,
    <<26, 13, 24, 21, 15, 29, 19, 12, 8, 16, 9, 33, 0, 4, 17, 27, 5, 11,
      1, 2, 32, 3, 30, 23, 31, 10, 22, 18, 25, 6, 20, 34, 7, 14, 28>>,
    <<35, 13, 26, 30, 16, 31, 21, 12, 8, 17, 9, 34, 0, 4, 29, 15, 19, 5,
      11, 1, 24, 2, 33, 3, 32, 23, 27, 10, 22, 18, 25, 6, 20, 7, 14, 28>>,
    <<17, 13, 4, 29, 35, 25, 6, 26, 24, 16, 8, 15, 12, 32, 9, 19, 0, 31,
      5, 11, 1, 27, 21, 2, 36, 34, 3, 33, 23, 30, 10, 22, 18, 20, 7, 14,
      28>>,
    <<33, 36, 4, 13, 30, 26, 6, 27, 24, 15, 17, 8, 16, 12, 19, 9, 32, 0,
      25, 5, 11, 1, 37, 21, 2, 29, 35, 3, 34, 23, 31, 10, 22, 18, 20, 7,
      14, 28>>,
    <<33, 36, 4, 13, 30, 26, 6, 27, 24, 15, 17, 8, 16, 12, 19, 9, 32, 0,
      25, 5, 11, 1, 37, 21, 2, 29, 35, 3, 34, 23, 31, 10, 22, 18, 20, 7,
      14, 28, 38>>,
    <<19, 16, 15, 26, 4, 12, 37, 27, 39, 6, 25, 9, 13, 31, 34, 8, 17, 24,
      0, 33, 5, 11, 1, 29, 21, 2, 30, 36, 3, 35, 23, 32, 10, 22, 18, 20,
      7, 14, 28, 38>>,
    <<24, 13, 8, 25, 4, 40, 19, 39, 29, 6, 26, 12, 17, 9, 15, 32, 16, 35,
      34, 0, 27, 5, 11, 1, 30, 21, 2, 31, 37, 3, 36, 23, 33, 10, 22, 18,
      20, 7, 14, 28, 38>>,
    <<25, 13, 8, 26, 4, 39, 19, 29, 30, 6, 27, 12, 17, 9, 15, 33, 16, 36,
      35, 0, 24, 5, 11, 40, 1, 31, 21, 2, 32, 41, 3, 37, 23, 34, 10, 22,
      18, 20, 7, 14, 28, 38>>,
    <<37, 24, 25, 36, 34, 39, 4, 12, 8, 3, 6, 27, 31, 19, 17, 13, 40, 15,
      9, 16, 30, 26, 0, 29, 41, 5, 11, 32, 1, 42, 21, 2, 33, 23, 35, 10,
      22, 18, 20, 7, 14, 28, 38>>,
    <<37, 24, 25, 36, 34, 40, 4, 12, 8, 3, 6, 27, 31, 19, 17, 13, 41, 15,
      9, 16, 30, 26, 0, 29, 42, 5, 11, 32, 1, 39, 21, 2, 33, 23, 35, 10,
      22, 18, 43, 20, 7, 14, 28, 38>>,
    <<39, 25, 26, 43, 35, 41, 4, 12, 8, 3, 6, 24, 32, 19, 17, 13, 42, 15,
      9, 16, 37, 31, 27, 0, 30, 29, 5, 11, 33, 1, 40, 21, 2, 34, 23, 36,
      10, 22, 18, 44, 20, 7, 14, 28, 38>>,
    <<39, 25, 26, 44, 35, 41, 4, 12, 8, 3, 6, 24, 32, 19, 17, 13, 43, 15,
      9, 16, 37, 31, 27, 0, 30, 29, 5, 11, 33, 1, 40, 21, 2, 34, 23, 36,
      10, 22, 18, 45, 20, 7, 42, 14, 28, 38>>,
    <<27, 39, 26, 43, 24, 36, 12, 19, 4, 25, 8, 3, 6, 40, 33, 13, 17, 44,
      15, 9, 16, 29, 32, 45, 0, 31, 30, 5, 11, 34, 1, 41, 21, 2, 35, 23,
      37, 10, 22, 18, 46, 20, 7, 42, 14, 28, 38>>,
    <<27, 40, 26, 43, 24, 37, 12, 19, 4, 25, 8, 3, 6, 39, 33, 13, 17, 45,
      15, 9, 16, 29, 32, 46, 0, 31, 30, 5, 11, 34, 1, 44, 21, 2, 36, 35,
      23, 41, 10, 22, 18, 47, 20, 7, 42, 14, 28, 38>>,
    <<13, 45, 47, 44, 17, 27, 26, 25, 31, 19, 12, 4, 34, 8, 3, 6, 40, 41,
      46, 15, 9, 16, 24, 33, 30, 0, 43, 32, 5, 29, 11, 36, 1, 21, 2, 37,
      35, 23, 39, 10, 22, 18, 48, 20, 7, 42, 14, 28, 38>>,
    <<13, 39, 30, 45, 17, 48, 26, 25, 32, 19, 12, 4, 37, 8, 3, 6, 41, 46,
      47, 15, 9, 16, 24, 34, 31, 0, 44, 27, 33, 5, 29, 11, 36, 1, 21, 2,
      43, 35, 23, 40, 10, 22, 18, 49, 20, 7, 42, 14, 28, 38>> >>

Permutation0 ==
    <<
    <<0>>,
    <<1, 0>>,
    <<2, 1, 0>>,
    <<2, 3, 1, 0>>,
    <<2, 0, 1, 3, 4>>,
    <<5, 2, 1, 3, 0, 4>>,
    <<6, 2, 1, 3, 0, 5, 4>>,
    <<6, 2, 1, 7, 3, 0, 5, 4>>,
    <<7, 2, 1, 4, 8, 6, 3, 0, 5>>,
    <<2, 8, 4, 9, 1, 6, 7, 3, 0, 5>>,
    <<4, 9, 2, 10, 6, 1, 7, 8, 3, 0, 5>>,
    <<6, 11, 4, 10, 2, 8, 1, 7, 9, 3, 0, 5>>,
    <<6, 11, 4, 10, 2, 8, 1, 7, 9, 3, 0, 5, 12>>,
    <<8, 6, 4, 11, 2, 13, 9, 1, 7, 10, 3, 0, 5, 12>>,
    <<1, 6, 8, 9, 14, 4, 2, 13, 10, 7, 11, 3, 0, 5, 12>>,
    <<1, 6, 8, 9, 13, 4, 2, 14, 10, 7, 15, 11, 3, 0, 5, 12>>,
    <<1, 6, 8, 9, 13, 4, 2, 14, 10, 7, 16, 11, 3, 0, 5, 15, 12>>,
    <<1, 6, 8, 10, 14, 4, 2, 16, 17, 9, 7, 13, 11, 3, 0, 5, 15, 12>>,
    <<10, 1, 8, 18, 14, 16, 6, 4, 2, 5, 13, 9, 7, 17, 11, 3, 0, 15, 12>>,
    <<18, 1, 19, 8, 10, 17, 6, 13, 4, 2, 5, 14, 9, 7, 16, 11, 3, 0, 15,
      12>>,
    <<8, 13, 20, 1, 11, 10, 14, 18, 6, 19, 4, 2, 5, 16, 9, 7, 17, 3, 0,
      15, 12>>,
    <<20, 10, 14, 13, 1, 21, 11, 19, 8, 6, 16, 4, 2, 5, 17, 9, 7, 18, 3,
      0, 15, 12>>,
    <<11, 10, 21, 14, 20, 1, 13, 22, 16, 8, 6, 17, 4, 2, 5, 18, 9, 7, 19,
      3, 0, 15, 12>>,
    <<11, 10, 22, 14, 20, 1, 13, 23, 16, 8, 6, 17, 4, 2, 5, 18, 9, 7, 19,
      3, 0, 21, 15, 12>>,
    <<5, 2, 19, 16, 11, 22, 17, 24, 23, 14, 1, 10, 13, 8, 6, 18, 4, 9, 7,
      20, 3, 0, 21, 15, 12>>,
    <<2, 20, 14, 17, 5, 11, 22, 13, 18, 19, 16, 1, 10, 25, 24, 8, 6, 4, 9,
      7, 23, 3, 0, 21, 15, 12>>,
    <<2, 24, 14, 17, 5, 11, 23, 13, 19, 20, 16, 1, 10, 26, 25, 8, 6, 4,
      18, 9, 7, 22, 3, 0, 21, 15, 12>>,
    <<2, 22, 14, 17, 5, 11, 24, 13, 20, 25, 16, 1, 10, 27, 26, 8, 6, 4,
      18, 19, 9, 7, 23, 3, 0, 21, 15, 12>>,
    <<2, 20, 23, 13, 11, 25, 27, 26, 5, 14, 8, 16, 22, 17, 1, 10, 28, 6,
      4, 18, 19, 9, 7, 24, 3, 0, 21, 15, 12>>,
    <<2, 28, 13, 10, 26, 24, 27, 11, 17, 22, 5, 16, 8, 14, 23, 20, 1, 29,
      6, 4, 18, 19, 9, 7, 25, 3, 0, 21, 15, 12>>,
    <<2, 29, 13, 10, 27, 25, 22, 11, 17, 23, 5, 16, 8, 14, 24, 20, 1, 30,
      6, 4, 18, 28, 19, 9, 7, 26, 3, 0, 21, 15, 12>>,
    <<11, 22, 10, 2, 16, 14, 28, 26, 20, 13, 24, 5, 17, 8, 30, 25, 23, 1,
      31, 6, 4, 18, 29, 19, 9, 7, 27, 3, 0, 21, 15, 12>>,
    <<11, 20, 24, 17, 2, 25, 26, 16, 10, 32, 29, 23, 15, 8, 13, 30, 5, 14,
      28, 22, 1, 12, 6, 4, 18, 21, 19, 9, 7, 31, 27, 3, 0>>,
    <<11, 20, 25, 17, 2, 26, 31, 16, 10, 33, 30, 24, 15, 8, 13, 28, 5, 14,
      29, 22, 1, 12, 6, 23, 4, 18, 21, 19, 9, 7, 32, 27, 3, 0>>,
    <<29, 20, 16, 28, 22, 15, 10, 2, 11, 27, 25, 34, 32, 26, 30, 8, 13, 5,
      17, 14, 31, 24, 1, 12, 6, 23, 4, 18, 21, 19, 9, 7, 33, 3, 0>>,
    <<31, 20, 16, 30, 22, 15, 10, 2, 11, 29, 27, 35, 33, 28, 32, 8, 13, 5,
      17, 14, 7, 26, 1, 12, 25, 24, 6, 23, 4, 18, 21, 19, 9, 34, 3, 0>>,
    <<22, 20, 16, 10, 31, 28, 15, 11, 2, 25, 30, 32, 36, 34, 29, 33, 8,
      13, 5, 17, 14, 7, 27, 1, 12, 26, 24, 6, 23, 4, 18, 21, 19, 9, 35, 3,
      0>>,
    <<22, 29, 16, 15, 11, 20, 26, 10, 25, 2, 31, 33, 32, 37, 35, 30, 34,
      8, 13, 5, 17, 14, 7, 28, 1, 12, 27, 24, 6, 23, 4, 18, 21, 19, 9, 36,
      3, 0>>,
    <<4, 28, 29, 33, 34, 25, 10, 22, 11, 27, 18, 15, 2, 38, 20, 36, 16,
      35, 8, 13, 5, 17, 14, 32, 7, 31, 1, 26, 12, 30, 24, 6, 23, 21, 19,
      9, 37, 3, 0>>,
    <<22, 20, 25, 4, 10, 15, 28, 11, 18, 29, 27, 35, 37, 2, 39, 30, 34,
      16, 36, 8, 13, 5, 17, 14, 33, 7, 32, 1, 26, 12, 31, 24, 6, 23, 21,
      19, 9, 38, 3, 0>>,
    <<25, 35, 29, 4, 10, 31, 27, 11, 36, 30, 28, 20, 38, 2, 40, 18, 15,
      22, 16, 37, 8, 13, 5, 17, 14, 34, 7, 33, 1, 26, 12, 32, 24, 6, 23,
      21, 19, 9, 39, 3, 0>>,
    <<30, 36, 27, 4, 10, 25, 28, 11, 37, 31, 29, 20, 39, 2, 41, 18, 15,
      22, 16, 38, 8, 13, 5, 17, 32, 14, 35, 7, 34, 1, 26, 12, 33, 24, 6,
      23, 21, 19, 9, 40, 3, 0>>,
    <<30, 36, 27, 4, 10, 25, 28, 11, 37, 31, 29, 20, 40, 2, 42, 18, 15,
      22, 16, 38, 8, 13, 5, 17, 32, 14, 35, 7, 34, 1, 26, 12, 33, 24, 6,
      23, 21, 19, 9, 39, 41, 3, 0>>,
    <<30, 37, 27, 4, 10, 25, 28, 11, 38, 31, 29, 20, 41, 2, 43, 18, 15,
      22, 16, 40, 8, 13, 5, 17, 32, 14, 35, 7, 34, 1, 26, 12, 33, 24, 6,
      23, 36, 21, 19, 9, 39, 42, 3, 0>>,
    <<30, 37, 27, 4, 10, 25, 28, 11, 38, 31, 29, 20, 41, 2, 43, 18, 15,
      22, 16, 40, 8, 13, 5, 17, 32, 14, 35, 7, 34, 1, 26, 12, 33, 24, 6,
      23, 36, 21, 19, 9, 39, 42, 3, 0, 44>>,
    <<25, 22, 28, 4, 10, 31, 29, 11, 20, 32, 30, 38, 42, 2, 45, 18, 15,
      27, 16, 41, 40, 8, 13, 5, 17, 33, 14, 37, 7, 35, 1, 26, 12, 34, 24,
      6, 23, 36, 21, 19, 9, 39, 43, 3, 0, 44>>,
    <<28, 33, 30, 4, 18, 11, 42, 31, 22, 10, 27, 32, 29, 43, 2, 45, 26,
      15, 25, 16, 40, 20, 41, 8, 13, 5, 17, 34, 14, 37, 7, 38, 1, 12, 35,
      24, 6, 23, 36, 21, 19, 9, 39, 46, 3, 0, 44>>,
    <<29, 4, 26, 30, 32, 37, 34, 40, 7, 10, 11, 31, 33, 27, 47, 2, 46, 18,
      15, 28, 22, 16, 41, 20, 42, 8, 13, 25, 5, 17, 35, 14, 38, 1, 12, 43,
      24, 6, 23, 36, 21, 19, 9, 39, 45, 3, 0, 44>>,
    <<29, 4, 26, 30, 32, 37, 34, 40, 7, 10, 11, 31, 33, 27, 48, 2, 46, 18,
      15, 28, 22, 16, 41, 20, 42, 8, 13, 25, 5, 17, 35, 14, 38, 1, 12, 43,
      24, 6, 23, 36, 21, 19, 9, 39, 45, 3, 0, 47, 44>>,
    <<28, 11, 10, 41, 2, 27, 38, 31, 22, 4, 33, 35, 26, 34, 18, 7, 14, 45,
      48, 29, 15, 30, 32, 16, 42, 20, 43, 8, 13, 25, 5, 17, 40, 49, 1, 12,
      37, 24, 6, 23, 36, 21, 19, 9, 39, 46, 3, 0, 47, 44>> >>

permutation(seed, n) == IF seed = random_state THEN Permutation42[n] ELSE Permutation0[n]

Model(estimator, seed, X, y) ==
    [estimator |-> estimator, random_state |-> seed, X |-> X, y |-> y]
NoModel == Model("-", <<>>, <<>>, <<>>)

Samples(X_train, X_test, y_train, y_test) ==
    [X_train |-> X_train, X_test |-> X_test, y_train |-> y_train, y_test |-> y_test]
NoSplit == Samples(<<>>, <<>>, <<>>, <<>>)

\* What a cell prints of a model: the title, the player the model is for,
\* the number of the player's rows, the quantities printed, and the model and
\* the holdout they are computed from.
Result(title, player, rows, reports, fitted, X_test, y_test) ==
    [title |-> title, player |-> player, rows |-> rows, reports |-> reports,
     fitted |-> fitted, X_test |-> X_test, y_test |-> y_test]

\* frame[['total_seconds', 'points_previous_game', 'is_playoff', 'is_home']]
features(frame) ==
    [i \in 1..Len(frame) |->
        [total_seconds |-> frame[i].total_seconds,
         points_previous_game |-> frame[i].points_previous_game,
         is_playoff |-> frame[i].is_playoff, is_home |-> frame[i].is_home]]

\* frame['points']
target(frame) == [i \in 1..Len(frame) |-> frame[i].points]

n_test_floor(n) == (n * test_size.num) \div test_size.den

\* The number of test samples: ceil(test_size * n_samples).
n_test(n) == ((n * test_size.num) + test_size.den - 1) \div test_size.den

\* train_test_split raises ValueError when the train set would be empty.
split_raises(n) == n - n_test(n) = 0

\* train_test_split(X, y, test_size=0.2, random_state=42): the first n_test
\* indices of the permutation are the test set, the others the train set.
train_test_split(X, y, seed, e) ==
    LET n == Len(X)
        perm == permutation(check_random_state(seed, e), n)
        test == SubSeq(perm, 1, n_test(n))
        train == SubSeq(perm, n_test(n) + 1, n)
    IN Samples([k \in 1..Len(train) |-> X[train[k] + 1]],
               [k \in 1..Len(test) |-> X[test[k] + 1]],
               [k \in 1..Len(train) |-> y[train[k] + 1]],
               [k \in 1..Len(test) |-> y[test[k] + 1]])

LinearRegression_fit(X, y) == Model("LinearRegression", <<>>, X, y)

RandomForestRegressor_fit(X, y, seed, e) ==
    Model("RandomForestRegressor", <<check_random_state(seed, e)>>, X, y)

LinearReports == <<"Intercept", "Coefficients", "R-squared", "Mean Squared Error">>
ForestReports == <<"R-squared", "Mean Squared Error", "Feature Importance">>

\* The cell "Linear Regression" on the frame: the split, the model and the
\* printed result, or the traceback of train_test_split.
linear_regression(frame, e) ==
    IF split_raises(Len(frame)) THEN
        [raised |-> TRUE, split |-> NoSplit, model |-> NoModel,
         printed |-> Result("ValueError", "-", Len(frame), <<>>, NoModel, <<>>, <<>>)]
    ELSE LET s == train_test_split(features(frame), target(frame), random_state, e)
             m == LinearRegression_fit(s.X_train, s.y_train)
         IN [raised |-> FALSE, split |-> s, model |-> m,
             printed |-> Result("Linear Regression Results:", "-", Len(frame),
                                LinearReports, m, s.X_test, s.y_test)]

P_LinearRegression ==
    /\ ppc = "prepare"
    /\ LET cell == linear_regression(p_active_players, entropy[1])
       IN /\ ppc' = IF cell.raised THEN "error" ELSE "linear"
          /\ split' = cell.split
          /\ lr_model' = cell.model
          /\ p_out' = Append(p_out, cell.printed)
    /\ UNCHANGED <<raw, csv, vvars, cvars, p_df, p_active_players, rf_model,
                   entropy, rerun>>

random_forest_on_holdout(s, e) ==
    LET m == RandomForestRegressor_fit(s.X_test, s.y_test, random_state, e)
    IN [model |-> m,
        printed |-> Result("Random Forest Results:", "-", Len(s.X_train) + Len(s.X_test),
                           ForestReports, m, s.X_test, s.y_test)]

\* The cell "Random Forest", on the split of the cell before.
random_forest(s, e) ==
    LET m == RandomForestRegressor_fit(s.X_train, s.y_train, random_state, e)
    IN [model |-> m,
        printed |-> Result("Random Forest Results:", "-", Len(s.X_train) + Len(s.X_test),
                           ForestReports, m, s.X_test, s.y_test)]

P_RandomForest ==
    /\ ppc = "linear" /\ ppc' = "forest"
    /\ LET cell == random_forest(split, entropy[1])
       IN /\ rf_model' = cell.model
          /\ p_out' = Append(p_out, cell.printed)
    /\ UNCHANGED <<raw, csv, vvars, cvars, p_df, p_active_players, split, lr_model,
                   entropy, rerun>>

\* train_player_model('Punter Kevin'); train_player_model('Lessort Mathias')
requests == <<"Punter Kevin", "Lessort Mathias">>

train_player_model_unchecked(frame, player_name, e) ==
    LET Own(r) == r.player = player_name
    IN Result("Results for", player_name, Len(SelectSeq(frame, Own)), LinearReports,
              NoModel, <<>>, <<>>)

\* train_player_model(player_name), by what it prints.
train_player_model(frame, player_name, e) ==
    LET Own(r) == r.player = player_name
        player_data == SelectSeq(frame, Own)
    IN IF Len(player_data) < min_games THEN
           Result("Not enough data", player_name, Len(player_data), <<>>, NoModel,
                  <<>>, <<>>)
       ELSE LET s == train_test_split(features(player_data), target(player_data),
                                      random_state, e)
                m == LinearRegression_fit(s.X_train, s.y_train)
            IN Result("Results for", player_name, Len(player_data), LinearReports, m,
                      s.X_test, s.y_test)

\* The calls of train_player_model made so far, by the lines they printed.
calls_made(printed) == Cardinality({k \in 1..Len(printed) : printed[k].player # "-"})

P_TrainPlayer ==
    /\ ppc \in {"forest", "players"}
    /\ calls_made(p_out) < Len(requests)
    /\ ppc' = "players"
    /\ p_out' = Append(p_out, train_player_model(p_active_players,
                                                 requests[calls_made(p_out) + 1],
                                                 entropy[1]))
    /\ UNCHANGED <<raw, csv, vvars, cvars, p_df, p_active_players, split, lr_model,
                   rf_model, entropy, rerun>>

-----------------------------------------------------------------------------
(* The consistency-analysis notebook: the tables.                          *)

RECURSIVE Sum(_)
Sum(xs) == IF xs = <<>> THEN 0 ELSE xs[1] + Sum(Tail(xs))

Products(xs, ys) == [i \in 1..Len(xs) |-> xs[i] * ys[i]]

\* Series.mean()
mean(xs) == IF xs = <<>> THEN NaN ELSE Ratio(Sum(xs), Len(xs))

\* Series.std(): the sample standard deviation, NaN for fewer than two values.
std(xs) ==
    LET n == Len(xs)
    IN IF n < 2 THEN NaN
       ELSE Root((n * Sum(Products(xs, xs))) - (Sum(xs) * Sum(xs)), n * (n - 1))

\* Series.autocorr(lag=1): the Pearson correlation of the series with itself
\* shifted by one row, over the rows where both have a value; NaN when there
\* are no two such rows or one of the two has no variance.
autocorr(xs) ==
    LET m == Len(xs) - 1
        a == SubSeq(xs, 2, Len(xs))
        b == SubSeq(xs, 1, m)
        cov == (m * Sum(Products(a, b))) - (Sum(a) * Sum(b))
        var_a == (m * Sum(Products(a, a))) - (Sum(a) * Sum(a))
        var_b == (m * Sum(Products(b, b))) - (Sum(b) * Sum(b))
    IN IF m < 2 \/ var_a = 0 \/ var_b = 0 THEN NaN ELSE OverRoot(cov, var_a * var_b)

\* The keys of frame.groupby('player'), in the order of the names.
group_keys(frame) ==
    LET names == {frame[i].player : i \in 1..Len(frame)}
        grouped == {k \in 1..Len(SortedNames) : SortedNames[k] \in names}
        nth(j) == CHOOSE k \in grouped : Cardinality({x \in grouped : x < k}) = j - 1
    IN [j \in 1..Cardinality(grouped) |-> SortedNames[nth(j)]]

\* One player's values of a column, in the order of the frame.
group_column(frame, name, col) ==
    LET Own(r) == r.player = name
        rows == SelectSeq(frame, Own)
    IN [i \in 1..Len(rows) |-> rows[i][col]]

\* frame.groupby('player').size(), for one player
size(frame, name) == Len(group_column(frame, name, "points"))

\* table[active_players.groupby('player').size() >= min_games]
at_least_min_games(table, frame) ==
    LET Enough(row) == size(frame, row.player) >= min_games
    IN SelectSeq(table, Enough)

\* groupby('player').agg({'points': 'std', 'valuation': 'std', 'plus_minus': 'std'})
agg_std(frame) ==
    LET keys == group_keys(frame)
    IN [j \in 1..Len(keys) |->
          [player |-> keys[j],
           points_sd |-> std(group_column(frame, keys[j], "points")),
           valuation_sd |-> std(group_column(frame, keys[j], "valuation")),
           plus_minus_sd |-> std(group_column(frame, keys[j], "plus_minus"))]]

\* groupby('player').agg({... : ['mean', 'std']}) with the six columns renamed
agg_mean_std(frame) ==
    LET keys == group_keys(frame)
    IN [j \in 1..Len(keys) |->
          [player |-> keys[j],
           points_mean |-> mean(group_column(frame, keys[j], "points")),
           points_sd |-> std(group_column(frame, keys[j], "points")),
           valuation_mean |-> mean(group_column(frame, keys[j], "valuation")),
           valuation_sd |-> std(group_column(frame, keys[j], "valuation")),
           plus_minus_mean |-> mean(group_column(frame, keys[j], "plus_minus")),
           plus_minus_sd |-> std(group_column(frame, keys[j], "plus_minus"))]]

C_Stats ==
    /\ cpc = "active" /\ cpc' = "stats"
    /\ consistency_stats' = at_least_min_games(agg_std(c_active_players), c_active_players)
    /\ UNCHANGED <<raw, csv, vvars, c_df, c_players, c_active_players,
                   consistency_stats_with_means, autocorr_points, consistency_full,
                   pvars>>

C_StatsWithMeans ==
    /\ cpc = "stats" /\ cpc' = "means"
    /\ consistency_stats_with_means' =
            at_least_min_games(agg_mean_std(c_active_players), c_active_players)
    /\ UNCHANGED <<raw, csv, vvars, c_df, c_players, c_active_players,
                   consistency_stats, autocorr_points, consistency_full, pvars>>

\* active_players['phase'].map({'REGULAR SEASON': 1, 'PLAYOFFS': 2})
phase_order_from_one == [phase \in {"REGULAR SEASON", "PLAYOFFS"} |->
                            IF phase = "REGULAR SEASON" THEN 1 ELSE 2]

\* x.autocorr(lag=1) if len(x) >= 10 else float('nan')
windowed_autocorr(xs) == IF Len(xs) >= min_games THEN autocorr(xs) ELSE NaN

HasAutocorr(row) == ~isna(row.points_autocorr)

\* groupby('player')['points'].apply(...).rename('points_autocorr').dropna()
autocorr_of_points(frame) ==
    LET keys == group_keys(frame)
        all == [j \in 1..Len(keys) |->
                  [player |-> keys[j],
                   points_autocorr |->
                        windowed_autocorr(group_column(frame, keys[j], "points"))]]
    IN SelectSeq(all, HasAutocorr)

C_Autocorr ==
    /\ cpc = "means" /\ cpc' = "autocorr"
    /\ c_active_players' = sort_values(add_phase_order(c_active_players, phase_order_from_one))
    /\ autocorr_points' = autocorr_of_points(c_active_players')
    /\ UNCHANGED <<raw, csv, vvars, c_df, c_players, consistency_stats,
                   consistency_stats_with_means, consistency_full, pvars>>

\* table['points_autocorr'] = series: the value of the series at the row's
\* player, NaN where the series has no such player.
assign_autocorr(table, series) ==
    [j \in 1..Len(table) |->
        table[j] @@
        [points_autocorr |->
            IF \E k \in 1..Len(series) : series[k].player = table[j].player
            THEN series[CHOOSE k \in 1..Len(series) :
                            series[k].player = table[j].player].points_autocorr
            ELSE NaN]]

\* The cell "combined stats", which the notebook runs twice.
combined_stats(frame, series) ==
    assign_autocorr(at_least_min_games(agg_mean_std(frame), frame), series)

C_Full ==
    /\ cpc \in {"autocorr", "full"}
    /\ cpc' = IF cpc = "autocorr" THEN "full" ELSE "full_by_mean"
    /\ consistency_full' = combined_stats(c_active_players, autocorr_points)
    /\ UNCHANGED <<raw, csv, vvars, c_df, c_players, c_active_players,
                   consistency_stats, consistency_stats_with_means, autocorr_points,
                   pvars>>

-----------------------------------------------------------------------------
(* A second kernel that runs the predictive-modeling notebook on the same  *)
(* file: the cells above, on a notebook of its own.                        *)

Notebook(pc, frame, active, s, lr, rf, printed) ==
    [pc |-> pc, df |-> frame, active_players |-> active, split |-> s,
     lr_model |-> lr, rf_model |-> rf, out |-> printed]

NewNotebook == Notebook("start", <<>>, <<>>, NoSplit, NoModel, NoModel, <<>>)

\* The notebook after its next cell.
run_cell(nb, file, e) ==
    CASE nb.pc = "start" -> [nb EXCEPT !.pc = "load", !.df = read_csv(file)]
      [] nb.pc = "load" ->
            [nb EXCEPT !.pc = "filter", !.active_players = filter_active_players(nb.df)]
      [] nb.pc = "filter" ->
            [nb EXCEPT !.pc = "prepare", !.active_players = prepare_data(@)]
      [] nb.pc = "prepare" ->
            LET cell == linear_regression(nb.active_players, e)
            IN [nb EXCEPT !.pc = IF cell.raised THEN "error" ELSE "linear",
                          !.split = cell.split, !.lr_model = cell.model,
                          !.out = Append(@, cell.printed)]
      [] nb.pc = "linear" ->
            LET cell == random_forest(nb.split, e)
            IN [nb EXCEPT !.pc = "forest", !.rf_model = cell.model,
                          !.out = Append(@, cell.printed)]
      [] OTHER ->
            [nb EXCEPT !.pc = "players",
                       !.out = Append(@, train_player_model(nb.active_players,
                                            requests[calls_made(nb.out) + 1], e))]

\* The notebook has a cell left to run.
unfinished(nb) ==
    /\ nb.pc # "error"
    /\ nb.pc \in {"forest", "players"} => calls_made(nb.out) < Len(requests)

Rerun ==
    /\ csv.exists
    /\ unfinished(rerun)
    /\ rerun' = run_cell(rerun, csv, entropy[2])
    /\ UNCHANGED <<raw, csv, vvars, cvars, ppc, p_df, p_active_players, pmodels,
                   entropy>>

\* What the two kernels would seed an unseeded generator with.
OsEntropy == {0, random_state}

-----------------------------------------------------------------------------

\* Every kernel before its first cell, and no cleaned file yet.
FreshKernels ==
    /\ csv = NoFile
    /\ vpc = "start"
    /\ df = <<>>
    /\ partizan_team = <<>>
    /\ partizan_players = <<>>
    /\ totals = season_totals(<<>>, <<>>)
    /\ diffs = [rebound_difference |-> 0, turnover_difference |-> 0]
    /\ all_metrics_match = TRUE
    /\ out = <<>>
    /\ cpc = "start"
    /\ c_df = <<>>
    /\ c_players = <<>>
    /\ c_active_players = <<>>
    /\ consistency_stats = <<>>
    /\ consistency_stats_with_means = <<>>
    /\ autocorr_points = <<>>
    /\ consistency_full = <<>>
    /\ ppc = "start"
    /\ p_df = <<>>
    /\ p_active_players = <<>>
    /\ split = NoSplit
    /\ lr_model = NoModel
    /\ rf_model = NoModel
    /\ p_out = <<>>
    /\ rerun = NewNotebook

Init ==
    /\ raw \in RawFiles
    /\ entropy = [k \in 1..2 |-> 0]
    /\ FreshKernels

Next ==
    \/ CleaningNotebook
    \/ V_Load
    \/ V_Partition
    \/ V_CheckMetrics
    \/ V_CheckAndExplain
    \/ V_ReboundSplit
    \/ V_Unassigned
    \/ V_FieldGoals
    \/ V_PerGame
    \/ V_Valuation
    \/ C_Load
    \/ C_Split
    \/ C_Active
    \/ P_Load
    \/ P_Filter

Spec == Init /\ [][Next]_vars

\* The cleaning and the validation notebook alone.
NextValidation ==
    \/ CleaningNotebook
    \/ V_Load
    \/ V_Partition
    \/ V_CheckMetrics
    \/ V_CheckAndExplain
    \/ V_ReboundSplit
    \/ V_Unassigned
    \/ V_FieldGoals
    \/ V_PerGame
    \/ V_Valuation

SpecValidation == Init /\ [][NextValidation]_vars

\* A season's file, read by the predictive-modeling notebook alone.
InitSeason ==
    /\ raw \in SeasonFiles
    /\ entropy = [k \in 1..2 |-> 0]
    /\ FreshKernels

NextPredictive ==
    \/ CleaningNotebook
    \/ P_Load
    \/ P_Filter
    \/ P_Prepare
    \/ P_LinearRegression
    \/ P_RandomForest
    \/ P_TrainPlayer

SpecPredictive == InitSeason /\ [][NextPredictive]_vars

\* A season's file, read by the consistency-analysis notebook alone.
NextConsistency ==
    \/ CleaningNotebook
    \/ C_Load
    \/ C_Split
    \/ C_Active
    \/ C_Stats
    \/ C_StatsWithMeans
    \/ C_Autocorr
    \/ C_Full

SpecConsistency == InitSeason /\ [][NextConsistency]_vars

\* Two kernels run the predictive-modeling notebook on one file, each with an
\* entropy of its own, the cells of the two in any interleaving.
TwoRunScenarios ==
    {sc \in Scenarios : sc.schedule = "league" /\ ~sc.restart /\ ~sc.scoreless /\ sc.dup = "no"}

InitTwoRuns ==
    /\ raw \in {Season(sc) : sc \in TwoRunScenarios}
    /\ entropy \in [1..2 -> OsEntropy]
    /\ FreshKernels

NextTwoRuns ==
    \/ CleaningNotebook
    \/ P_Load
    \/ P_Filter
    \/ P_Prepare
    \/ P_LinearRegression
    \/ P_RandomForest
    \/ P_TrainPlayer
    \/ Rerun

SpecTwoRuns == InitTwoRuns /\ [][NextTwoRuns]_vars

\* The consistency-analysis and the predictive-modeling notebook on one season's
\* file, the cells of the two in any interleaving.
InitAnalysis ==
    /\ raw \in {Season(sc) : sc \in TwoRunScenarios}
    /\ entropy = [k \in 1..2 |-> 0]
    /\ FreshKernels

NextAnalysis ==
    \/ CleaningNotebook
    \/ C_Load
    \/ C_Split
    \/ C_Active
    \/ C_Stats
    \/ C_StatsWithMeans
    \/ C_Autocorr
    \/ C_Full
    \/ P_Load
    \/ P_Filter
    \/ P_Prepare
    \/ P_LinearRegression
    \/ P_RandomForest
    \/ P_TrainPlayer

SpecAnalysis == InitAnalysis /\ [][NextAnalysis]_vars

-----------------------------------------------------------------------------
(* The record set the validation notebook is given, read game by game.  A  *)
(* game is a game_id of the raw file; the cleaning keeps the rows and      *)
(* their order, so row i of the cleaned file is row i of the raw file.     *)

Records == read_csv(csv)
GameIds == {raw[i].game_id : i \in 1..Len(raw)}
RowsOfGame(g) == {i \in 1..Len(raw) : raw[i].game_id = g}
TeamRowsOfGame(g) == {i \in RowsOfGame(g) : IsTeam(Records[i])}
PlayerRowsOfGame(g) == {i \in RowsOfGame(g) : IsPlayer(Records[i])}
CodeOfGame(g) == raw[CHOOSE i \in RowsOfGame(g) : TRUE].game

RECURSIVE SumRows(_, _)
SumRows(S, col) ==
    IF S = {} THEN 0
    ELSE LET i == CHOOSE x \in S : TRUE IN Records[i][col] + SumRows(S \ {i}, col)

AllRows == 1..Len(Records)
TeamRowsAll == {i \in AllRows : IsTeam(Records[i])}
PlayerRowsAll == {i \in AllRows : IsPlayer(Records[i])}

ExactCols == {"points", "assists", "free_throws_made", "free_throws_attempted",
              "fouls_committed", "fouls_received", "total_seconds"}
ReconcilableCols == {"total_rebounds", "steals", "turnovers"}

ReboundSplitHolds(r) == r.total_rebounds = r.offensive_rebounds + r.defensive_rebounds
FieldGoalsHold(r) == 2 * r.two_points_made + 3 * r.three_points_made = r.points - r.free_throws_made
ValuationHolds(r) == r.valuation = BoxPIR(r)

SeasonDiffers(col) == SumRows(PlayerRowsAll, col) # SumRows(TeamRowsAll, col)
GameDiffers(g, col) == SumRows(PlayerRowsOfGame(g), col) # SumRows(TeamRowsOfGame(g), col)
Unassigned(g, col) == SumRows(TeamRowsOfGame(g), col) - SumRows(PlayerRowsOfGame(g), col)
SeasonUnassigned(col) == SumRows(TeamRowsAll, col) - SumRows(PlayerRowsAll, col)

\* Some hard invariant of the record set is violated.
HardViolation ==
    \/ \E i \in AllRows : ~ReboundSplitHolds(Records[i])
    \/ \E i \in AllRows : ~FieldGoalsHold(Records[i])
    \/ \E i \in AllRows : ~ValuationHolds(Records[i])
    \/ \E col \in ExactCols : SeasonDiffers(col)
    \/ \E g \in GameIds, col \in ExactCols : GameDiffers(g, col)
    \/ \E g \in GameIds : Cardinality(TeamRowsOfGame(g)) # 1
    \/ \E col \in ReconcilableCols : SeasonUnassigned(col) < 0

FailureTexts ==
    {"All metrics that should match perfectly are not matching perfectly",
     "Rebound totals inconsistent with offensive/defensive splits!",
     "Player field goal discrepancies found:", "Team field goals mismatch:",
     "Points mismatch in game", "Assists mismatch in game", "Seconds mismatch in game",
     "Player valuation mismatch detected!", "Team valuation mismatch detected!"}

SuccessTexts ==
    {"All metrics that should match perfectly are matching perfectly",
     "All metrics are matching perfectly",
     "Rebound totals consistent with offensive/defensive splits.",
     "Field goals are accurate for all players and team totals.",
     "Team totals match players sums for all metrics in all games.",
     "Valuation is accurate for all players.", "Valuation is accurate for the team."}

UnassignedTexts == {"Unassigned team rebounds:", "Unassigned team turnovers:"}

Printed(text) == \E k \in 1..Len(out) : out[k].text = text
FailurePrinted == \E k \in 1..Len(out) : out[k].text \in FailureTexts
SuccessPrinted == \E k \in 1..Len(out) : out[k].text \in SuccessTexts
ReportPrinted == \E k \in 1..Len(out) : out[k].text \in UnassignedTexts

\* The validation notebook has run to its last cell on `frame` and printed no failure.
ValidatedOk(frame) == VRan("valuation") /\ ~FailurePrinted /\ df = frame

-----------------------------------------------------------------------------
(* The claims.                                                             *)

\* C1: no step of the consistency-analysis or of the predictive-modeling
\* notebook begins on a record set before the validation notebook has run
\* through on that same record set and reported no failure.
C1_ValidatorBarrier ==
    /\ cpc # "start" => ValidatedOk(c_df)
    /\ ppc # "start" => ValidatedOk(p_df)

\* C2: a validation run ends in one of two outcomes: with a hard invariant
\* violated it prints no report of unassigned counts and no success message;
\* otherwise it prints the report.
C2_TwoOutcomes ==
    VRan("valuation") =>
        IF HardViolation THEN ~ReportPrinted /\ ~SuccessPrinted ELSE ReportPrinted

\* C3: for every game and every exact-match metric, the per-game check fails
\* when the sum over that game's player rows differs from the game's team row.
C3_PerGameExactMatch ==
    VRan("per_game") =>
        \A g \in GameIds, col \in ExactCols : GameDiffers(g, col) => ~all_metrics_match

\* C4: when some game has no team row or more than one, the validation run
\* prints a failure that names that game.
C4_AggregateRowCount ==
    VRan("valuation") =>
        \A g \in GameIds :
            Cardinality(TeamRowsOfGame(g)) # 1 =>
                \E k \in 1..Len(out) :
                    out[k].text \in FailureTexts /\ out[k].game = CodeOfGame(g)

FieldGoalFailureTexts == {"Player field goal discrepancies found:", "Team field goals mismatch:"}

\* C5: the field-goal check fails when any record, a team row included,
\* violates 2*twoMade + 3*threeMade = points - ftMade.
C5_FieldGoalsEveryRecord ==
    VRan("field_goals") =>
        ((\E i \in AllRows : ~FieldGoalsHold(Records[i]))
            => \E k \in 1..Len(out) : out[k].text \in FieldGoalFailureTexts)

\* C6: the season-level check passes iff the seven exact-match sums agree
\* between player rows and team rows, and a failure names each metric that differs.
C6_SeasonExactMatch ==
    VRan("check_metrics") =>
        /\ Printed("All metrics that should match perfectly are matching perfectly")
            <=> \A col \in ExactCols : ~SeasonDiffers(col)
        /\ \A col \in ExactCols :
            SeasonDiffers(col) =>
                \E k \in 1..Len(out) : out[k].text \in FailureTexts /\ col \in out[k].names

\* C7: the rebound-split check passes iff every record, player row and team
\* row alike, has total_rebounds = offensive_rebounds + defensive_rebounds,
\* and it fails iff some record does not.
C7_ReboundSplit ==
    VRan("rebound_split") =>
        /\ Printed("Rebound totals consistent with offensive/defensive splits.")
            <=> \A i \in AllRows : ReboundSplitHolds(Records[i])
        /\ Printed("Rebound totals inconsistent with offensive/defensive splits!")
            <=> \E i \in AllRows : ~ReboundSplitHolds(Records[i])

\* The rebound-split check has failed on a team row while every player row holds.
C7_Witness ==
    /\ VRan("rebound_split")
    /\ \E i \in TeamRowsAll : ~ReboundSplitHolds(Records[i])
    /\ \A i \in PlayerRowsAll : ReboundSplitHolds(Records[i])
    /\ Printed("Rebound totals inconsistent with offensive/defensive splits!")

\* C8: the valuation check passes iff every record has valuation equal to the
\* index-rating formula, and a failure reports the numeric discrepancy.
C8_Valuation ==
    VRan("valuation") =>
        /\ (Printed("Valuation is accurate for all players.")
                /\ Printed("Valuation is accurate for the team."))
            <=> \A i \in AllRows : ValuationHolds(Records[i])
        /\ \A i \in AllRows :
            ~ValuationHolds(Records[i]) =>
                \E k \in 1..Len(out) :
                    /\ out[k].text \in FailureTexts
                    /\ \E n \in 1..Len(out[k].vals) :
                        out[k].vals[n] = Records[i].valuation - BoxPIR(Records[i])

\* C9: when the player sum of a reconcilable metric exceeds the team sum the
\* validation run fails, and every unassigned count in a printed report is >= 0.
C9_UnassignedNonNegative ==
    VRan("valuation") =>
        /\ \A col \in ReconcilableCols : SeasonUnassigned(col) < 0 => FailurePrinted
        /\ \A k \in 1..Len(out) :
            out[k].text \in UnassignedTexts => \A n \in 1..Len(out[k].vals) : out[k].vals[n] >= 0

\* C10: when in every game the team row's value of a reconcilable metric is at
\* least the player rows' sum, a record set that is otherwise consistent raises
\* no failure, and the report holds, per game and per metric (total_rebounds,
\* steals, turnovers), the difference as that game's unassigned count.
C10_PerGameUnassigned ==
    VRan("valuation") =>
        ((\A g \in GameIds, col \in ReconcilableCols : Unassigned(g, col) >= 0) =>
            /\ ~HardViolation => ~FailurePrinted
            /\ \A g \in GameIds, col \in ReconcilableCols :
                \E k \in 1..Len(out) :
                    /\ out[k].text \in UnassignedTexts
                    /\ col \in out[k].names
                    /\ out[k].game = CodeOfGame(g)
                    /\ out[k].vals = <<Unassigned(g, col)>>)

-----------------------------------------------------------------------------
(* The season the analysis notebooks are given, read record by record.  An *)
(* active record is a row of a player with is_playing set; a player's      *)
(* series is his active records under totalOrder = (phaseRank, round).     *)

PhaseRank(phase) == IF phase = "REGULAR SEASON" THEN 0 ELSE 1

TotalOrderLess(a, b) ==
    \/ PhaseRank(a.phase) < PhaseRank(b.phase)
    \/ PhaseRank(a.phase) = PhaseRank(b.phase) /\ a.round < b.round

ActivityThreshold == min_games

PlayerNames == {Records[i].player : i \in 1..Len(Records)} \ {TEAM}

\* The positions in the cleaned file of the active records of a player.
ActiveRecords(name) ==
    {i \in 1..Len(Records) : Records[i].player = name /\ Records[i].is_playing}

ActiveCount(name) == Cardinality(ActiveRecords(name))

Eligible(name) == ActiveCount(name) >= ActivityThreshold

\* The predictive-modeling notebook has built its features.
Prepared == ppc \in {"prepare", "linear", "forest", "players", "error"}

RowsOf(frame, name) == {i \in 1..Len(frame) : frame[i].player = name}

\* C11: once the frame is sorted, any two rows of one player stand in the
\* strict order of (phaseRank, round): regular season before playoffs whatever
\* the rounds, and no two rows of a player with the same phase and round.
C11_SeriesOrder ==
    Prepared =>
        \A i, j \in 1..Len(p_active_players) :
            (i < j /\ p_active_players[i].player = p_active_players[j].player)
                => TotalOrderLess(p_active_players[i], p_active_players[j])

\* The row of a frame is the record of the file with columns added.
IsRecord(row, k) == \A c \in DOMAIN Records[k] : row[c] = Records[k][c]

\* Record q of a player is immediately before record k in his series: not
\* after it, and no record of his strictly between the two.
ImmediatelyBefore(q, k, name) ==
    /\ q # k
    /\ ~TotalOrderLess(Records[k], Records[q])
    /\ ~\E m \in ActiveRecords(name) :
            TotalOrderLess(Records[q], Records[m]) /\ TotalOrderLess(Records[m], Records[k])

\* The sorted frame with the shifted points, before the rows without are dropped.
Lagged ==
    add_points_previous_game(
        sort_values(add_phase_order(filter_active_players(p_df), phase_order)))

C13_PooledPlayers ==
    Prepared =>
        \A name \in PlayerNames :
            (RowsOf(p_active_players, name) # {}) <=> Eligible(name)

\* The lines train_player_model has printed.
PlayerLines == {k \in 1..Len(p_out) : p_out[k].player # "-"}

Refused(k) == p_out[k].title = "Not enough data"
Modelled(k) == p_out[k].title = "Results for"

\* C14: a requested player with at least ActivityThreshold active records is
\* given a model of his own, a player with exactly that many included.
C14_EligibleGetsModel ==
    \A k \in PlayerLines : Eligible(p_out[k].player) => Modelled(k)

\* A call of train_player_model has printed its line in this step.
PlayerLinePrinted ==
    /\ Len(p_out') = Len(p_out) + 1
    /\ p_out'[Len(p_out')].player # "-"

\* Every line printed for a player below the threshold is a refusal, and after
\* a refusal the calls that are left can still be made.
C15_Refusals ==
    /\ \A k \in PlayerLines : ~Eligible(p_out[k].player) => Refused(k)
    /\ (ppc = "players" /\ calls_made(p_out) < Len(requests)) => ENABLED P_TrainPlayer

\* A call of train_player_model adds its own line and leaves the frame, the
\* global split and models and every line printed before as they were.
C15_OwnLineOnly ==
    PlayerLinePrinted =>
        /\ UNCHANGED <<p_df, p_active_players, split, lr_model, rf_model>>
        /\ SubSeq(p_out', 1, Len(p_out)) = p_out
        /\ p_out'[Len(p_out')].player = requests[calls_made(p_out) + 1]

\* C15: a request for a player below the activity threshold is refused for
\* that player alone: the refusal changes neither the global results nor any
\* other player's result, and the requests after it are processed.
C15_InsufficientDataScoped == []C15_Refusals /\ [][C15_OwnLineOnly]_vars

\* The first request was refused for a player below the threshold and the
\* second was given its model.
C15_Witness ==
    \E k1, k2 \in PlayerLines :
        /\ k1 < k2
        /\ ~Eligible(p_out[k1].player) /\ Refused(k1)
        /\ Modelled(k2)

RECURSIVE SumOfRecords(_, _)
\* The sum of a column over a set of records of the file.
SumOfRecords(S, col) ==
    IF S = {} THEN 0
    ELSE LET k == CHOOSE x \in S : TRUE
         IN Records[k][col] + SumOfRecords(S \ {k}, col)

RECURSIVE SumOfSquares(_, _)
SumOfSquares(S, col) ==
    IF S = {} THEN 0
    ELSE LET k == CHOOSE x \in S : TRUE
         IN (Records[k][col] * Records[k][col]) + SumOfSquares(S \ {k}, col)

\* The mean and the sample standard deviation of a column over the active
\* records of a player.
ActiveMean(name, col) == Ratio(SumOfRecords(ActiveRecords(name), col), ActiveCount(name))

ActiveStd(name, col) ==
    LET n == ActiveCount(name)
        sum == SumOfRecords(ActiveRecords(name), col)
    IN Root((n * SumOfSquares(ActiveRecords(name), col)) - (sum * sum), n * (n - 1))

EligiblePlayers == {name \in PlayerNames : Eligible(name)}

TablePlayers(table) == {table[j].player : j \in 1..Len(table)}

\* The cell of the consistency-analysis notebook has run.
CRan(cell) ==
    LET order == <<"start", "load", "split", "active", "stats", "means", "autocorr",
                   "full", "full_by_mean">>
        rank(c) == CHOOSE k \in 1..Len(order) : order[k] = c
    IN rank(cpc) >= rank(cell)

StdsOfActive(row) ==
    /\ row.points_sd = ActiveStd(row.player, "points")
    /\ row.valuation_sd = ActiveStd(row.player, "valuation")
    /\ row.plus_minus_sd = ActiveStd(row.player, "plus_minus")

MeansOfActive(row) ==
    /\ row.points_mean = ActiveMean(row.player, "points")
    /\ row.valuation_mean = ActiveMean(row.player, "valuation")
    /\ row.plus_minus_mean = ActiveMean(row.player, "plus_minus")

\* C16: each table of summary statistics has one row for every player with at
\* least ActivityThreshold active records and for no other, and the means and
\* standard deviations in it are those of the player's active records.
C16_SummaryStatistics ==
    /\ CRan("stats") =>
          /\ TablePlayers(consistency_stats) = EligiblePlayers
          /\ Len(consistency_stats) = Cardinality(EligiblePlayers)
          /\ \A j \in 1..Len(consistency_stats) : StdsOfActive(consistency_stats[j])
    /\ CRan("means") =>
          /\ TablePlayers(consistency_stats_with_means) = EligiblePlayers
          /\ Len(consistency_stats_with_means) = Cardinality(EligiblePlayers)
          /\ \A j \in 1..Len(consistency_stats_with_means) :
                /\ StdsOfActive(consistency_stats_with_means[j])
                /\ MeansOfActive(consistency_stats_with_means[j])
    /\ CRan("full") =>
          /\ TablePlayers(consistency_full) = EligiblePlayers
          /\ Len(consistency_full) = Cardinality(EligiblePlayers)
          /\ \A j \in 1..Len(consistency_full) :
                /\ StdsOfActive(consistency_full[j])
                /\ MeansOfActive(consistency_full[j])

\* The tables are computed for a season in which a player with rows of games
\* he sat out is in them and a player with nine active records is not.
C16_Witness ==
    /\ CRan("full")
    /\ \E name \in TablePlayers(consistency_full) :
          \E i \in 1..Len(Records) : Records[i].player = name /\ ~Records[i].is_playing
    /\ \E name \in PlayerNames \ TablePlayers(consistency_full) :
          ActiveCount(name) = ActivityThreshold - 1

\* The minimum window of the autocorrelation is the activity threshold.
MinimumWindow == ActivityThreshold

\* The table reports a number as the autocorrelation of the player.
AutocorrReported(table, name) ==
    \E j \in 1..Len(table) : table[j].player = name /\ ~isna(table[j].points_autocorr)

\* C17: the autocorrelation of points is a number for every player with at
\* least MinimumWindow active records and is absent for every other player, and
\* no row of the combined table holds NaN for it.
C17_Autocorrelation ==
    /\ CRan("autocorr") =>
          \A name \in PlayerNames :
              AutocorrReported(autocorr_points, name) <=> ActiveCount(name) >= MinimumWindow
    /\ CRan("full") =>
          /\ \A name \in PlayerNames :
                AutocorrReported(consistency_full, name) <=> ActiveCount(name) >= MinimumWindow
          /\ \A j \in 1..Len(consistency_full) : ~isna(consistency_full[j].points_autocorr)

\* The record of the file is the first of its player's series.
SeriesFirst(k) ==
    \A m \in ActiveRecords(Records[k].player) : ~TotalOrderLess(Records[m], Records[k])

\* C18: for every player with n >= ActivityThreshold active records the frame
\* the global models are trained on holds n - 1 rows, each an active record of
\* his other than the first of his series, with a points_previous_game that is
\* a number; the frame holds no row of any other kind.
C18_PooledRecords ==
    Prepared =>
        /\ \A name \in EligiblePlayers :
              Cardinality(RowsOf(p_active_players, name)) = ActiveCount(name) - 1
        /\ \A i \in 1..Len(p_active_players) :
              /\ ~isna(p_active_players[i].points_previous_game)
              /\ \E k \in ActiveRecords(p_active_players[i].player) :
                    IsRecord(p_active_players[i], k)
              /\ \A k \in ActiveRecords(p_active_players[i].player) :
                    IsRecord(p_active_players[i], k) => ~SeriesFirst(k)

\* The first kernel's run of the predictive-modeling notebook, as a notebook.
FirstRun == Notebook(ppc, p_df, p_active_players, split, lr_model, rf_model, p_out)

\* The two kernels have run the same cells and made the same calls.
SameCellsRun == ppc = rerun.pc /\ calls_made(p_out) = calls_made(rerun.out)

\* C19: two runs of the notebook on the same file, whatever the entropy of
\* their kernels, have after the same cells the same frame, the same train and
\* test samples, the same global models and the same printed results, the
\* players' included.
C19_Determinism == SameCellsRun => FirstRun = rerun

\* Two kernels of different entropy have both run every cell and trained the
\* global models and a player's model.
C19_Witness ==
    /\ entropy[1] # entropy[2]
    /\ ppc = "players" /\ rerun.pc = "players"
    /\ calls_made(p_out) = Len(requests) /\ calls_made(rerun.out) = Len(requests)
    /\ Len(split.X_test) > 0 /\ Len(rerun.split.X_train) > Len(rerun.split.X_test)
    /\ \E k \in PlayerLines : Modelled(k) /\ Len(p_out[k].X_test) > 0

\* The rows of one player, in the order of the frame.
OwnRows(frame, name) ==
    LET Own(r) == r.player = name
    IN SelectSeq(frame, Own)

\* The series of every player is what the prepare cell makes of his rows
\* alone, and the frame holds nothing but these series.
SeriesBuiltPerPlayer ==
    LET filtered == filter_active_players(p_df)
    IN /\ \A name \in PlayerNames :
             OwnRows(p_active_players, name) = prepare_data(OwnRows(filtered, name))
       /\ \A i \in 1..Len(p_active_players) : p_active_players[i].player \in PlayerNames

\* The line printed for a player is what train_player_model makes of his rows
\* alone, whichever calls were made before it.
ModelsFittedPerPlayer ==
    \A k \in PlayerLines :
        p_out[k] = train_player_model(OwnRows(p_active_players, p_out[k].player),
                                      p_out[k].player, entropy[1])

-----------------------------------------------------------------------------
(* The fits of the predictive-modeling notebook, read off what it printed. *)

\* The fraction of a fitting sample that is held out.
HoldoutFraction == [num |-> 1, den |-> 5]

\* ceil(HoldoutFraction * n)
HoldoutSize(n) ==
    CHOOSE h \in 0..n : /\ HoldoutFraction.den * h >= HoldoutFraction.num * n
                        /\ HoldoutFraction.den * (h - 1) < HoldoutFraction.num * n

\* The lines that report a fitted model.
FitLines == {k \in 1..Len(p_out) : p_out[k].fitted # NoModel}
GlobalFitLines == {k \in FitLines : p_out[k].player = "-"}

\* The sample a reported model was fitted and evaluated on: the pooled frame,
\* or the rows of the player the line is for.
SampleOf(k) ==
    LET Own(r) == r.player = p_out[k].player
    IN IF p_out[k].player = "-" THEN p_active_players
       ELSE SelectSeq(p_active_players, Own)

\* The partition procedure: the sample in the order the generator seeded with
\* random_state gives, the first HoldoutSize rows held out.
PartitionOf(sample) ==
    LET n == Len(sample)
        h == HoldoutSize(n)
        order == permutation(random_state, n)
    IN [holdout |-> [k \in 1..h |-> sample[order[k] + 1]],
        training |-> [k \in 1..(n - h) |-> sample[order[h + k] + 1]]]

FittedAsPartitioned(k) ==
    LET part == PartitionOf(SampleOf(k))
    IN /\ p_out[k].fitted.X = features(part.training)
       /\ p_out[k].fitted.y = target(part.training)
       /\ p_out[k].X_test = features(part.holdout)
       /\ p_out[k].y_test = target(part.holdout)

\* C21: the random forest is fitted on the training records and scored on the
\* holdout records of the global linear regression, and every fit, the
\* per-player ones included, has its sample partitioned by the one procedure:
\* seed random_state, a fifth of the sample (rounded up) held out.
C21_SamePartition ==
    /\ \A k, j \in GlobalFitLines :
          /\ p_out[k].fitted.X = p_out[j].fitted.X
          /\ p_out[k].fitted.y = p_out[j].fitted.y
          /\ p_out[k].X_test = p_out[j].X_test
          /\ p_out[k].y_test = p_out[j].y_test
    /\ rf_model # NoModel =>
          /\ rf_model.X = lr_model.X /\ rf_model.y = lr_model.y
          /\ rf_model.estimator # lr_model.estimator
          /\ \E k \in GlobalFitLines : p_out[k].fitted = rf_model
    /\ \A k \in FitLines : FittedAsPartitioned(k)

\* Both global models and a model of a player's own have been reported.
C21_Witness ==
    /\ \E k, j \in GlobalFitLines :
          /\ p_out[k].fitted.estimator = "LinearRegression"
          /\ p_out[j].fitted.estimator = "RandomForestRegressor"
    /\ \E k \in FitLines \ GlobalFitLines :
          Len(SampleOf(k)) < Len(p_active_players)

\* The names under which a line would report the root of its mean squared error.
RmseReports == {"RMSE", "Root Mean Squared Error"}

Reports(k) == {p_out[k].reports[j] : j \in 1..Len(p_out[k].reports)}

\* C22: every line that reports a fitted model, global or for one player,
\* linear regression or random forest, reports R-squared, the mean squared
\* error and, derived from it, the root mean squared error.
C22_RootMeanSquaredError ==
    \A k \in FitLines :
        /\ "R-squared" \in Reports(k)
        /\ "Mean Squared Error" \in Reports(k)
        /\ Reports(k) \cap RmseReports # {}

\* The team's own code in a game code "HOME-AWAY".
TeamCode == "PAR"

\* The first of the tokens of a game code: what stands before its first dash.
FirstToken(code) ==
    LET dashes == {i \in 1..Len(code) : SubSeq(code, i, i) = "-"}
    IN IF dashes = {} THEN code
       ELSE SubSeq(code, 1, (CHOOSE i \in dashes : \A j \in dashes : i <= j) - 1)

\* C23: on every row of the prepared frame is_home is set exactly when the
\* first token of the game code is the team's own code, and is_playoff exactly
\* when the phase of the row is the playoffs.
C23_GameContext ==
    Prepared =>
        \A i \in 1..Len(p_active_players) :
            LET row == p_active_players[i]
            IN /\ row.is_home \in {0, 1}
               /\ row.is_playoff \in {0, 1}
               /\ (row.is_home = 1) <=> (FirstToken(row.game) = TeamCode)
               /\ (row.is_playoff = 1) <=> (row.phase = "PLAYOFFS")

\* The frame holds home and away rows of both phases.
C23_Witness ==
    /\ Prepared
    /\ \A home, playoff \in {0, 1} :
          \E i \in 1..Len(p_active_players) :
              /\ p_active_players[i].is_home = home
              /\ p_active_players[i].is_playoff = playoff

-----------------------------------------------------------------------------
(* What the notebooks leave of the table they were given.                  *)

\* The validation notebook holds the table as it read it.
InputAsLoaded == VRan("load") => df = Records

\* A cell of the validation notebook writes neither file.
ValidationWritesNoFile == (vpc' # vpc) => UNCHANGED <<raw, csv>>

\* C24: the validation notebook leaves its input as it was: after every cell,
\* the last one included, df has the rows, the columns and the values of the
\* cleaned file, the file itself is not written, and that whether the checks
\* printed failures or not.
C24_InputUnchanged == []InputAsLoaded /\ [][ValidationWritesNoFile]_vars

\* All checks have run, one of them has printed a failure, and the copies the
\* notebook works on have the columns validate_valuation added.
C24_Witness ==
    /\ vpc = "valuation"
    /\ FailurePrinted
    /\ partizan_players # <<>>
    /\ "missed_field_goals" \in DOMAIN partizan_players[1]
    /\ "missed_field_goals" \notin DOMAIN df[1]

\* The analysis notebooks hold the table as they read it.
SourceAsLoaded ==
    /\ ppc # "start" => p_df = Records
    /\ cpc # "start" => c_df = Records

\* A row of a working frame is a record of the file, whatever columns the
\* notebook has added to it.
FromSource(row) == \E k \in 1..Len(Records) : IsRecord(row, k)

WorkOnCopies ==
    /\ \A i \in 1..Len(p_active_players) : FromSource(p_active_players[i])
    /\ \A i \in 1..Len(c_players) : FromSource(c_players[i])
    /\ \A i \in 1..Len(c_active_players) : FromSource(c_active_players[i])

\* A cell of an analysis notebook writes neither the file nor the table the
\* notebook loaded from it.
SourceKept ==
    /\ (ppc' # ppc \/ cpc' # cpc) => UNCHANGED <<raw, csv>>
    /\ (ppc' # ppc /\ ppc # "start") => p_df' = p_df
    /\ (cpc' # cpc /\ cpc # "start") => c_df' = c_df

\* C25: filtering, sorting, adding the lag and context columns, dropping the
\* series-first rows, and fitting the models leave the loaded table and the
\* file as they were: the working frames are copies whose rows are records of
\* the file with columns added.
C25_SourceImmutable == [](SourceAsLoaded /\ WorkOnCopies) /\ [][SourceKept]_vars

\* Both notebooks have run to their end on frames that are narrower than the
\* table and carry added columns.
C25_Witness ==
    /\ cpc = "full_by_mean" /\ ppc = "players" /\ calls_made(p_out) = Len(requests)
    /\ p_active_players # <<>>
    /\ Len(p_active_players) < Len(p_df)
    /\ "points_previous_game" \in DOMAIN p_active_players[1]
    /\ "points_previous_game" \notin DOMAIN p_df[1]
    /\ "phase_order" \in DOMAIN c_active_players[1]
    /\ "phase_order" \notin DOMAIN c_df[1]

-----------------------------------------------------------------------------
(* The cleaned file.                                                       *)

SameKey(a, b) == a.game = b.game /\ a.round = b.round /\ a.player = b.player

\* C26: the cleaned file holds no two records with the same game, round and
\* player, also when the raw file did.
C26_NoDuplicates ==
    csv.exists =>
        \A i, j \in 1..Len(csv.rows) : i < j => ~SameKey(csv.rows[i], csv.rows[j])

-----------------------------------------------------------------------------
(* The order in which the records arrive.                                  *)

\* The file with its rows in other orders: earliest game first, and the
\* second half of the file before the first.
Reversed(rows) == [i \in 1..Len(rows) |-> rows[Len(rows) + 1 - i]]
HalvesSwapped(rows) ==
    SubSeq(rows, (Len(rows) \div 2) + 1, Len(rows)) \o SubSeq(rows, 1, Len(rows) \div 2)

Arrivals == {Reversed(Records), HalvesSwapped(Records)}

\* What the filter and the prepare cell make of a table.
PreparedFrom(rows) == prepare_data(filter_active_players(rows))

\* The training set of the global models, from a prepared frame.
PooledTraining(frame) ==
    IF split_raises(Len(frame)) THEN NoSplit
    ELSE train_test_split(features(frame), target(frame), random_state, entropy[1])

\* C27: the series of every player, with its points_previous_game, and the
\* pooled training set are what they would be had the rows of the file arrived
\* in any other order.
C27_OrderIndependent ==
    Prepared =>
        \A rows \in Arrivals :
            LET other == PreparedFrom(rows)
            IN /\ other = p_active_players
               /\ PooledTraining(other) = PooledTraining(p_active_players)

-----------------------------------------------------------------------------
(* Where a lagged value comes from.                                        *)

\* Row i of the prepared frame is the first row of its player there.
AtPlayerBoundary(i) ==
    i = 1 \/ p_active_players[i - 1].player # p_active_players[i].player

\* The records that open a player's series.
SeriesOpeners(name) ==
    {q \in ActiveRecords(name) :
        \A m \in ActiveRecords(name) : ~TotalOrderLess(Records[m], Records[q])}

\* The player sat out the round before the one of the row.
AfterAbsence(row) ==
    \E q \in 1..Len(Records) :
        /\ Records[q].player = row.player
        /\ ~Records[q].is_playing
        /\ Records[q].phase = row.phase
        /\ Records[q].round + 1 = row.round

\* C28: the points_previous_game of a row is the points of another active
\* record of the same player that is not after it; no row of the frame is a
\* record of a game the player sat out; and the first row of a player in the
\* frame carries the points of the record that opens his own series, not
\* those of the row above it.
C28_LagWithinPlayer ==
    Prepared =>
        \A i \in 1..Len(p_active_players) :
            LET row == p_active_players[i]
                S == ActiveRecords(row.player)
            IN /\ row.is_playing
               /\ \E k \in S, q \in S :
                     /\ q # k
                     /\ IsRecord(row, k)
                     /\ ~TotalOrderLess(Records[k], Records[q])
                     /\ row.points_previous_game = Float(Records[q].points)
               /\ AtPlayerBoundary(i) =>
                     \E q \in SeriesOpeners(row.player) :
                         row.points_previous_game = Float(Records[q].points)

\* The frame holds a first row of a player whose value differs from the points
\* of the row above it, and a row of a round after one the player sat out
\* whose value is not the 0 points of the record of that absence.
C28_Witness ==
    /\ Prepared
    /\ \E i \in 2..Len(p_active_players) :
          /\ AtPlayerBoundary(i)
          /\ p_active_players[i].points_previous_game
                # Float(p_active_players[i - 1].points)
    /\ \E i \in 1..Len(p_active_players) :
          /\ AfterAbsence(p_active_players[i])
          /\ p_active_players[i].points_previous_game # Float(0)

-----------------------------------------------------------------------------
(* The two sets of a fit.                                                  *)

\* The records of a sample, each the features and the target of a row.
Paired(X, y) == [i \in 1..Len(X) |-> <<X[i], y[i]>>]

\* How often a record occurs in a sequence of records.
Occurrences(records, v) == Cardinality({i \in 1..Len(records) : records[i] = v})

TrainingOf(k) == Paired(p_out[k].fitted.X, p_out[k].fitted.y)
HoldoutOf(k) == Paired(p_out[k].X_test, p_out[k].y_test)

\* C29: for every reported fit the training and the holdout set split the
\* fitting sample: every record of the sample is in the two sets together as
\* often as it is in the sample and nothing else is in them, the holdout has
\* ceil(0.2 * n) of the n records, and for a player who passed the check of
\* train_player_model neither set is empty.
C29_Partition ==
    \A k \in FitLines :
        LET sample == Paired(features(SampleOf(k)), target(SampleOf(k)))
            training == TrainingOf(k)
            holdout == HoldoutOf(k)
            n == Len(sample)
        IN /\ Len(training) + Len(holdout) = n
           /\ \A i \in 1..n :
                 Occurrences(training, sample[i]) + Occurrences(holdout, sample[i])
                    = Occurrences(sample, sample[i])
           /\ Len(holdout) = HoldoutSize(n)
           /\ Len(p_out[k].fitted.X) = Len(p_out[k].fitted.y)
           /\ Len(p_out[k].X_test) = Len(p_out[k].y_test)
           /\ p_out[k].player # "-" => training # <<>> /\ holdout # <<>>

\* A player's model and the global models have been fitted on samples whose
\* size is no multiple of five, so that the holdout is rounded up.
C29_Witness ==
    /\ \E k \in FitLines \ GlobalFitLines :
          /\ Len(SampleOf(k)) % HoldoutFraction.den # 0
          /\ Len(HoldoutOf(k)) * HoldoutFraction.den > Len(SampleOf(k))
    /\ \E k \in GlobalFitLines :
          Len(SampleOf(k)) % HoldoutFraction.den # 0

-----------------------------------------------------------------------------
(* The team-level check of validate_field_goals.                           *)

\* The season sum of the players' points minus that of the team rows'.
SeasonPointsGap == SumRows(PlayerRowsAll, "points") - SumRows(TeamRowsAll, "points")

PlayerFieldGoalsHold == \A i \in PlayerRowsAll : FieldGoalsHold(Records[i])

\* The discrepancy the team-level line reports.
ReportedDiscrepancy(d) ==
    \E k \in 1..Len(out) :
        /\ out[k].text = "Team field goals mismatch:"
        /\ Len(out[k].vals) = Len(<<"Expected", "got", "difference">>)
        /\ out[k].vals[Len(out[k].vals)] = d

====
